---- MODULE Spec2Model ----
(***************************************************************************)
(* BudgetTracker: the BudgetProvider store (src/context/BudgetContext.js), *)
(* the localStorage adapter (src/utils/storage.js) and the import dialog.  *)
(*                                                                         *)
(* The store is React state.  A store function called from an event        *)
(* handler reads the collections of the last committed render (its         *)
(* closure) and queues state updaters; React then commits the render and   *)
(* runs the effects whose dependency changed, in declaration order, before *)
(* the next event is handled.  The model keeps the committed collections,  *)
(* the queued (pending) collections, the queue of effects still to run and *)
(* the content of localStorage.                                            *)
(*                                                                         *)
(* Ids: the code builds ids from Date.now() and Math.random(); the model   *)
(* draws them from a counter, so a generated id is always fresh.           *)
(***************************************************************************)
EXTENDS Integers, Sequences, FiniteSets, TLC

VARIABLES
  transactions,      \* useState: the committed transaction array
  categories,        \* useState: the committed category array
  budgets,           \* useState: the committed budget array
  pendTransactions,  \* the transaction array after the queued updaters
  pendCategories,    \* the category array after the queued updaters
  pendBudgets,       \* the budget array after the queued updaters
  dirty,             \* the states set since the last commit
  storage,           \* window.localStorage: key -> stored text
  phase,             \* "effects" | "idle" | "render"
  effectQ,           \* the effects of the last commit still to run
  idCount,           \* ids generated so far, per kind
  result,            \* the last handler call: operation, arguments, outcome
  io,                \* the storage-adapter calls made by the last step
  step,              \* the kind of the last step
  initial,           \* localStorage as it was when the provider mounted
  faults,            \* storage writes rejected so far
  events,            \* events handled so far
  setCalls,          \* per (categoryId, period): the id the first setBudget call
                     \* returned and the amount of the last one, since the pair
                     \* last had no budget
  calc               \* the last call of a utility function: its name, its
                     \* arguments and what it returned

vars == <<transactions, categories, budgets, pendTransactions, pendCategories,
          pendBudgets, dirty, storage, phase, effectQ, idCount, result, io,
          step, initial, faults, events, setCalls, calc>>

----------------------------------------------------------------------------
(* Bounds of the model *)

MaxEvents == 2           \* user events handled (each calls one store function)
MaxFaults == 1           \* storage writes that are rejected

----------------------------------------------------------------------------
(* src/utils/constants.js *)

NULL == "null"

TRANSACTIONS == "budget_tracker_transactions"
CATEGORIES == "budget_tracker_categories"
BUDGETS == "budget_tracker_budgets"
STORAGE_KEYS == {TRANSACTIONS, CATEGORIES, BUDGETS}

DEFAULT_CATEGORIES ==
  << [id |-> "cat-food", name |-> "Food & Dining", color |-> "#EF4444", icon |-> "UtensilsCrossed"],
     [id |-> "cat-transport", name |-> "Transportation", color |-> "#3B82F6", icon |-> "Car"],
     [id |-> "cat-shopping", name |-> "Shopping", color |-> "#8B5CF6", icon |-> "ShoppingBag"],
     [id |-> "cat-entertainment", name |-> "Entertainment", color |-> "#EC4899", icon |-> "Film"],
     [id |-> "cat-bills", name |-> "Bills & Utilities", color |-> "#10B981", icon |-> "Receipt"],
     [id |-> "cat-health", name |-> "Health & Fitness", color |-> "#F59E0B", icon |-> "Heart"],
     [id |-> "cat-education", name |-> "Education", color |-> "#06B6D4", icon |-> "GraduationCap"],
     [id |-> "cat-other", name |-> "Other", color |-> "#6B7280", icon |-> "MoreHorizontal"] >>

----------------------------------------------------------------------------
(* JavaScript values and their JSON text *)

\* A JavaScript value as the adapter sees it: null, a non-array value, an array.
JSNull == [type |-> "null", items |-> <<>>]
JSObject == [type |-> "object", items |-> <<>>]
JSArray(items) == [type |-> "array", items |-> items]

isArray(v) == v.type = "array"

\* The text localStorage holds under a key.
Missing == [kind |-> "missing", value |-> JSNull]    \* getItem returns null
Garbage == [kind |-> "garbage", value |-> JSNull]    \* text JSON.parse rejects

JSONstringify(v) == [kind |-> "json", value |-> v]
JSONparseThrows(item) == item.kind = "garbage"
JSONparse(item) == item.value

\* { ...a, ...b }
Spread(a, b) ==
  [f \in (DOMAIN a) \cup (DOMAIN b) |-> IF f \in DOMAIN b THEN b[f] ELSE a[f]]

----------------------------------------------------------------------------
(* src/utils/storage.js *)

\* What can happen inside saveToStorage's try block: nothing ("none"), or
\* JSON.stringify or localStorage.setItem throws ("rejected"; the error's name
\* only selects the message that is logged).
Faults == {"none", "rejected"}

\* A plausible slip: no try/catch around JSON.parse.
getFromStorageNoCatch(st, key) ==
  LET item == st[key] IN
  IF item.kind = "missing"
    THEN [ret |-> JSNull, threw |-> FALSE, store |-> st]
    ELSE IF JSONparseThrows(item)
      THEN [ret |-> JSNull, threw |-> TRUE, store |-> st]
      ELSE [ret |-> JSONparse(item), threw |-> FALSE, store |-> st]

\* A plausible slip: the corrupt entry is removed while reading.
getFromStorageRepair(st, key) ==
  LET item == st[key] IN
  IF item.kind = "missing"
    THEN [ret |-> JSNull, threw |-> FALSE, store |-> st]
    ELSE IF JSONparseThrows(item)
      THEN [ret |-> JSNull, threw |-> FALSE, store |-> [st EXCEPT ![key] = Missing]]
      ELSE [ret |-> JSONparse(item), threw |-> FALSE, store |-> st]

\* getFromStorage(key): the value read (null when the key is missing or its
\* text does not parse), whether an exception left the function, and
\* localStorage afterwards.
getFromStorage(st, key) ==
  LET item == st[key] IN
  IF item.kind = "missing"
    THEN [ret |-> JSNull, threw |-> FALSE, store |-> st]
    ELSE IF JSONparseThrows(item)
      THEN [ret |-> JSNull, threw |-> FALSE, store |-> st]   \* catch: return null
      ELSE [ret |-> JSONparse(item), threw |-> FALSE, store |-> st]

\* A plausible slip: the key is cleared before the new text is set, so a
\* rejected write loses the old value.
saveToStorageClearFirst(st, key, value, fault) ==
  IF fault = "none"
    THEN [ret |-> TRUE, threw |-> FALSE, store |-> [st EXCEPT ![key] = JSONstringify(value)]]
    ELSE [ret |-> FALSE, threw |-> FALSE, store |-> [st EXCEPT ![key] = Missing]]

\* saveToStorage(key, value): the boolean returned, whether an exception left
\* the function, and localStorage afterwards.  setItem either stores the text
\* or throws and stores nothing.
saveToStorage(st, key, value, fault) ==
  IF fault = "none"
    THEN [ret |-> TRUE, threw |-> FALSE, store |-> [st EXCEPT ![key] = JSONstringify(value)]]
    ELSE [ret |-> FALSE, threw |-> FALSE, store |-> st]      \* catch: return false

\* The record of one adapter call in io.
GetCall(key, before, g) ==
  [fn |-> "getFromStorage", key |-> key, value |-> JSNull, fault |-> "none",
   returned |-> g.ret, saved |-> FALSE, threw |-> g.threw,
   before |-> before, after |-> g.store]

SaveCall(key, value, fault, before, s) ==
  [fn |-> "saveToStorage", key |-> key, value |-> value, fault |-> fault,
   returned |-> JSNull, saved |-> s.ret, threw |-> s.threw,
   before |-> before, after |-> s.store]

----------------------------------------------------------------------------
(* src/context/BudgetContext.js: the effects of BudgetProvider *)

MountEffects == <<"hydrate", "persistTransactions", "persistCategories", "persistBudgets">>
PersistEffects == <<"persistTransactions", "persistCategories", "persistBudgets">>

EffectDep(e) ==
  CASE e = "persistTransactions" -> "transactions"
    [] e = "persistCategories" -> "categories"
    [] e = "persistBudgets" -> "budgets"
    [] OTHER -> "mount"

\* After an effect: the next effect of this commit, else the render of the
\* states the effects set, else nothing is left to do.
EffectDone(newDirty) ==
  /\ effectQ' = Tail(effectQ)
  /\ phase' = IF Tail(effectQ) # <<>> THEN "effects"
              ELSE IF newDirty # {} THEN "render" ELSE "settled"
  /\ dirty' = newDirty
  /\ step' = Head(effectQ)

EffectIs(e) == phase = "effects" /\ effectQ # <<>> /\ Head(effectQ) = e

\* The outcomes a storage write may have now.
FaultsNow == IF faults < MaxFaults THEN Faults ELSE {"none"}

\* The collections the hydrate effect sets from what it read.
HydratedTransactions(savedTransactions) ==
  IF isArray(savedTransactions) THEN savedTransactions.items ELSE <<>>

\* A plausible slip: the length test on the saved categories is dropped.
UseSavedCategoriesNoLength(savedCategories) == isArray(savedCategories)

UseSavedCategories(savedCategories) ==
  isArray(savedCategories) /\ Len(savedCategories.items) > 0

HydratedBudgets(savedBudgets) ==
  IF isArray(savedBudgets) THEN savedBudgets.items ELSE <<>>

\* useEffect(() => {...}, []): load the three collections from localStorage.
\* An exception inside the try block is caught and the defaults are set.
Hydrate ==
  /\ EffectIs("hydrate")
  /\ \E fault \in FaultsNow :
       LET g1 == getFromStorage(storage, TRANSACTIONS)
           g2 == getFromStorage(g1.store, CATEGORIES)
           useSaved == UseSavedCategories(g2.ret)
           s == saveToStorage(g2.store, CATEGORIES, JSArray(DEFAULT_CATEGORIES), fault)
           st3 == IF useSaved THEN g2.store ELSE s.store
           g3 == getFromStorage(st3, BUDGETS)
           caught == g1.threw \/ g2.threw \/ (~useSaved /\ s.threw) \/ g3.threw
       IN /\ pendTransactions' = IF caught THEN <<>> ELSE HydratedTransactions(g1.ret)
          /\ pendCategories' = IF caught \/ ~useSaved THEN DEFAULT_CATEGORIES
                               ELSE g2.ret.items
          /\ pendBudgets' = IF caught THEN <<>> ELSE HydratedBudgets(g3.ret)
          /\ storage' = g3.store
          /\ faults' = IF ~useSaved /\ fault # "none" THEN faults + 1 ELSE faults
          /\ io' = <<GetCall(TRANSACTIONS, storage, g1), GetCall(CATEGORIES, g1.store, g2)>>
                   \o (IF useSaved THEN <<>>
                       ELSE <<SaveCall(CATEGORIES, JSArray(DEFAULT_CATEGORIES), fault, g2.store, s)>>)
                   \o <<GetCall(BUDGETS, st3, g3)>>
  /\ EffectDone({"transactions", "categories", "budgets"})
  /\ UNCHANGED <<calc, transactions, categories, budgets, idCount, result, initial, events, setCalls>>

\* A plausible slip: the categories effect saves an empty array too.
PersistGuardAlways(e) == TRUE

\* A plausible slip: every persist effect skips an empty collection.
PersistGuardNonEmpty(e) ==
  CASE e = "persistTransactions" -> Len(transactions) > 0
    [] e = "persistCategories" -> Len(categories) > 0
    [] e = "persistBudgets" -> Len(budgets) > 0

\* The guard of each persist effect (typeof window is "object" in the browser).

PersistGuard(e) ==
  CASE e = "persistTransactions" -> Len(transactions) >= 0
    [] e = "persistCategories" -> Len(categories) > 0
    [] e = "persistBudgets" -> TRUE

\* The body shared by the three persist effects: save the whole collection.
Persist(e, key, collection) ==
  /\ EffectIs(e)
  /\ IF PersistGuard(e)
       THEN \E fault \in FaultsNow :
              LET s == saveToStorage(storage, key, JSArray(collection), fault)
              IN /\ storage' = s.store
                 /\ faults' = IF fault # "none" THEN faults + 1 ELSE faults
                 /\ io' = <<SaveCall(key, JSArray(collection), fault, storage, s)>>
       ELSE /\ storage' = storage
            /\ faults' = faults
            /\ io' = <<>>
  /\ EffectDone(dirty)
  /\ UNCHANGED <<calc, transactions, categories, budgets, pendTransactions,
                 pendCategories, pendBudgets, idCount, result, initial, events, setCalls>>

\* useEffect(..., [transactions])
PersistTransactions == Persist("persistTransactions", TRANSACTIONS, transactions)

\* useEffect(..., [categories])
PersistCategories == Persist("persistCategories", CATEGORIES, categories)

\* useEffect(..., [budgets])
PersistBudgets == Persist("persistBudgets", BUDGETS, budgets)

\* The effects React runs after a commit: those whose dependency was set.
\* A plausible slip: effects without a dependency array run after every commit.
EffectsAfterCommitAll(changed) == PersistEffects

EffectsAfterCommit(changed) ==
  SelectSeq(PersistEffects, LAMBDA e : EffectDep(e) \in changed)

\* React commits the queued state and schedules the effects.
Render ==
  /\ phase = "render"
  /\ transactions' = pendTransactions
  /\ categories' = pendCategories
  /\ budgets' = pendBudgets
  /\ effectQ' = EffectsAfterCommit(dirty)
  /\ phase' = IF effectQ' # <<>> THEN "effects" ELSE "settled"
  /\ dirty' = {}
  /\ io' = <<>>
  /\ step' = "render"
  /\ UNCHANGED <<calc, pendTransactions, pendCategories, pendBudgets, storage,
                 idCount, result, initial, faults, events, setCalls>>

NoCall == [op |-> "none", args |-> <<>>, ret |-> NULL, threw |-> FALSE]
NoSnapshot == [k \in STORAGE_KEYS |-> Missing]

\* The handler has returned and React has nothing left to do: the provider
\* waits for the next event.  The records of the event are dropped.
Settle ==
  /\ phase = "settled"
  /\ phase' = "idle"
  /\ result' = NoCall
  /\ io' = <<>>
  /\ step' = "idle"
  /\ initial' = NoSnapshot
  /\ UNCHANGED <<calc, transactions, categories, budgets, pendTransactions,
                 pendCategories, pendBudgets, dirty, storage, effectQ, idCount,
                 faults, events, setCalls>>

----------------------------------------------------------------------------
(* src/context/BudgetContext.js: the store functions *)

Undefined == "undefined"
Now == "2024-06-01T12:00:00.000Z"      \* new Date().toISOString()

Field(obj, f) == IF f \in DOMAIN obj THEN obj[f] ELSE Undefined
Truthy(v) == v \notin {Undefined, NULL, ""}

\* A plausible slip: splice(findIndex(...), 1), which removes the last
\* element when no element has the id.
FilterOutIdOrLast(prev, id) ==
  IF \E i \in DOMAIN prev : prev[i].id = id
    THEN SelectSeq(prev, LAMBDA x : x.id # id)
    ELSE SubSeq(prev, 1, Len(prev) - 1)

\* array.filter(x => x.id !== id)
FilterOutId(prev, id) == SelectSeq(prev, LAMBDA x : x.id # id)

TransactionId(n) == "trans_" \o ToString(n)
CategoryId(n) == "cat_" \o ToString(n)
BudgetId(n) == "budget_" \o ToString(n)

\* What a store call leaves behind: its outcome, and the end of the event
\* handler (React renders when a state was set).
Called(op, args, ret, threw, newDirty) ==
  /\ events < MaxEvents
  /\ events' = events + 1
  /\ result' = [op |-> op, args |-> args, ret |-> ret, threw |-> threw]
  /\ dirty' = newDirty
  /\ phase' = IF newDirty # {} THEN "render" ELSE "settled"
  /\ step' = "call"
  /\ io' = <<>>
  /\ UNCHANGED <<calc, transactions, categories, budgets, storage, effectQ, initial,
                 faults>>

\* The record kept of the setBudget calls for a (categoryId, period) pair.
NoSetCall == [id |-> NULL, amount |-> 0]
PairOf(b) == <<b.categoryId, b.period>>
BudgetPairs == {<<"cat-food", "monthly">>, <<"cat-food", "weekly">>, <<"cat-x", "monthly">>}
SetCalled(budget, ret) ==
  [setCalls EXCEPT ![PairOf(budget)] =
     [id |-> IF @.id = NULL THEN ret ELSE @.id, amount |-> budget.amount]]

NewTransaction(transaction, id) ==
  Spread(transaction,
         [id |-> id,
          date |-> IF Truthy(Field(transaction, "date"))
                   THEN transaction.date ELSE Now])

addTransaction(transaction) ==
  /\ LET id == TransactionId(idCount.transactions + 1)
     IN /\ pendTransactions' = Append(pendTransactions, NewTransaction(transaction, id))
        /\ idCount' = [idCount EXCEPT !.transactions = @ + 1]
        /\ Called("addTransaction", [transaction |-> transaction], id, FALSE,
                  dirty \cup {"transactions"})
  /\ UNCHANGED <<pendCategories, pendBudgets, setCalls>>

updateTransaction(id, updates) ==
  /\ pendTransactions' =
       [i \in DOMAIN pendTransactions |->
          IF pendTransactions[i].id = id
            THEN Spread(pendTransactions[i], updates) ELSE pendTransactions[i]]
  /\ Called("updateTransaction", [id |-> id, updates |-> updates], NULL, FALSE,
            dirty \cup {"transactions"})
  /\ UNCHANGED <<pendCategories, pendBudgets, idCount, setCalls>>

deleteTransaction(id) ==
  /\ pendTransactions' = FilterOutId(pendTransactions, id)
  /\ Called("deleteTransaction", [id |-> id], NULL, FALSE, dirty \cup {"transactions"})
  /\ UNCHANGED <<pendCategories, pendBudgets, idCount, setCalls>>

addCategory(category) ==
  /\ LET id == CategoryId(idCount.categories + 1)
     IN /\ pendCategories' = Append(pendCategories, Spread(category, [id |-> id]))
        /\ idCount' = [idCount EXCEPT !.categories = @ + 1]
        /\ Called("addCategory", [category |-> category], id, FALSE,
                  dirty \cup {"categories"})
  /\ UNCHANGED <<pendTransactions, pendBudgets, setCalls>>

updateCategory(id, updates) ==
  /\ pendCategories' =
       [i \in DOMAIN pendCategories |->
          IF pendCategories[i].id = id
            THEN Spread(pendCategories[i], updates) ELSE pendCategories[i]]
  /\ Called("updateCategory", [id |-> id, updates |-> updates], NULL, FALSE,
            dirty \cup {"categories"})
  /\ UNCHANGED <<pendTransactions, pendBudgets, idCount, setCalls>>

\* A plausible slip: the guard compares the transaction's own id.
hasTransactionsById(txs, id) == \E i \in DOMAIN txs : txs[i].id = id

\* transactions.some((transaction) => transaction.categoryId === id)
hasTransactions(txs, id) == \E i \in DOMAIN txs : txs[i].categoryId = id

\* A plausible slip: the budget cascade is left out.
CascadeBudgetsNone(prev, id) == prev

\* A plausible slip: the cascade filters on the budget's own id.
CascadeBudgetsById(prev, id) == SelectSeq(prev, LAMBDA b : b.id # id)

\* prev.filter((budget) => budget.categoryId !== id)
CascadeBudgets(prev, id) == SelectSeq(prev, LAMBDA b : b.categoryId # id)

\* The guard reads the transactions of the render the callback closed over.
deleteCategory(id) ==
  IF hasTransactions(transactions, id)
    THEN /\ Called("deleteCategory", [id |-> id], NULL, TRUE, dirty)
         /\ UNCHANGED <<pendTransactions, pendCategories, pendBudgets, idCount,
                        setCalls>>
    ELSE /\ pendCategories' = FilterOutId(pendCategories, id)
         /\ pendBudgets' = CascadeBudgets(pendBudgets, id)
         /\ Called("deleteCategory", [id |-> id], NULL, FALSE,
                   dirty \cup {"categories", "budgets"})
         /\ setCalls' = [p \in DOMAIN setCalls |->
                           IF p[1] = id THEN NoSetCall ELSE setCalls[p]]
         /\ UNCHANGED <<pendTransactions, idCount>>

\* A plausible slip: the lookup compares the category only.
FindBudgetByCategory(bs, budget) ==
  LET hits == {i \in DOMAIN bs : bs[i].categoryId = budget.categoryId}
  IN IF hits = {} THEN 0 ELSE CHOOSE i \in hits : \A j \in hits : i <= j

\* A plausible slip: the lookup never finds anything, so every call appends.
FindBudgetNever(bs, budget) == 0

\* budgets.find((b) => b.categoryId === budget.categoryId && b.period === budget.period):
\* the index of the first match, 0 when there is none.
FindBudget(bs, budget) ==
  LET hits == {i \in DOMAIN bs : bs[i].categoryId = budget.categoryId
                                 /\ bs[i].period = budget.period}
  IN IF hits = {} THEN 0 ELSE CHOOSE i \in hits : \A j \in hits : i <= j

\* A plausible slip: the update replaces the stored budget without keeping its id.
MergeBudgetNewId(b, budget, id) == Spread(Spread(b, budget), [id |-> "budget_new"])

\* A plausible slip: the spread order is reversed, so the old fields win.
MergeBudgetOldWins(b, budget, id) == Spread(Spread(budget, b), [id |-> id])

\* { ...b, ...budget, id: existingBudget.id }
MergeBudget(b, budget, id) == Spread(Spread(b, budget), [id |-> id])

\* The lookup reads the budgets of the render the callback closed over.
setBudget(budget) ==
  LET found == FindBudget(budgets, budget) IN
  IF found # 0
    THEN LET existingBudget == budgets[found]
         IN /\ pendBudgets' =
                 [i \in DOMAIN pendBudgets |->
                    IF pendBudgets[i].id = existingBudget.id
                      THEN MergeBudget(pendBudgets[i], budget, existingBudget.id)
                      ELSE pendBudgets[i]]
            /\ Called("setBudget", [budget |-> budget], existingBudget.id, FALSE,
                      dirty \cup {"budgets"})
            /\ setCalls' = SetCalled(budget, existingBudget.id)
            /\ UNCHANGED <<pendTransactions, pendCategories, idCount>>
    ELSE /\ LET id == BudgetId(idCount.budgets + 1)
            IN /\ pendBudgets' = Append(pendBudgets, Spread(budget, [id |-> id]))
               /\ idCount' = [idCount EXCEPT !.budgets = @ + 1]
               /\ Called("setBudget", [budget |-> budget], id, FALSE,
                         dirty \cup {"budgets"})
               /\ setCalls' = SetCalled(budget, id)
         /\ UNCHANGED <<pendTransactions, pendCategories>>

deleteBudget(id) ==
  /\ pendBudgets' = FilterOutId(pendBudgets, id)
  /\ Called("deleteBudget", [id |-> id], NULL, FALSE, dirty \cup {"budgets"})
  /\ setCalls' = [p \in DOMAIN setCalls |->
                    IF \E i \in DOMAIN pendBudgets :
                         pendBudgets[i].id = id /\ PairOf(pendBudgets[i]) = p
                    THEN NoSetCall ELSE setCalls[p]]
  /\ UNCHANGED <<pendTransactions, pendCategories, idCount>>

----------------------------------------------------------------------------
(* src/utils/import.js and src/components/shared/DataImportModal.js *)

\* new Date(text): the date-only texts the model uses, and whether they parse.
DateParses(text) == text \in {"2024-01-01", "2024-02-29"}
ToISOString(text) == text \o "T00:00:00.000Z"

\* parseFloat(text): nan when the text starts with no number.
ParseFloat(text) ==
  CASE text = "25" -> [nan |-> FALSE, val |-> 25]
    [] text = "0" -> [nan |-> FALSE, val |-> 0]
    [] text = "-5" -> [nan |-> FALSE, val |-> 0 - 5]
    [] OTHER -> [nan |-> TRUE, val |-> 0]

\* text?.toLowerCase()
ToLowerCase(text) ==
  CASE text = "Expense" -> "expense"
    [] text = "INCOME" -> "income"
    [] OTHER -> text

\* String(text || '').trim()
Trim(text) ==
  CASE text = " Lunch " -> "Lunch"
    [] OTHER -> text

\* The body of the forEach callback of validateAndNormalizeTransactions for
\* the row at position index (0-based): the normalized record, or the message
\* of the error it throws.
NormalizeRow(transaction, index) ==
  LET rowNo == ToString(index + 1)
      amount == ParseFloat(transaction.amount)
      type == ToLowerCase(transaction.type)
  IN IF Truthy(transaction.date) /\ ~DateParses(transaction.date)
       THEN [ok |-> FALSE, error |-> "Invalid date at row " \o rowNo]
     ELSE IF amount.nan \/ amount.val <= 0
       THEN [ok |-> FALSE, error |-> "Invalid amount at row " \o rowNo]
     ELSE IF type \notin {"income", "expense"}
       THEN [ok |-> FALSE, error |-> "Invalid type at row " \o rowNo]
     ELSE [ok |-> TRUE,
           record |-> [id |-> IF Truthy(transaction.id) THEN transaction.id
                              ELSE "imported_" \o ToString(index),
                       date |-> IF Truthy(transaction.date)
                                THEN ToISOString(transaction.date)
                                ELSE transaction.date,
                       type |-> type,
                       amount |-> amount.val,
                       description |-> Trim(transaction.description),
                       categoryId |-> IF Truthy(transaction.categoryId)
                                      THEN transaction.categoryId ELSE NULL]]

\* A plausible slip: the import fails as soon as one row fails.
ImportFailsOnAnyError(normalized, errors) == Len(errors) > 0

\* errors.length > 0 && normalized.length === 0
ImportFails(normalized, errors) == Len(errors) > 0 /\ Len(normalized) = 0

\* validateAndNormalizeTransactions(imported): throws for a value that is
\* no array and when every row fails, else returns the normalized rows and
\* the row errors (null when there is none).  The text `Row ${n}: ${message}`
\* of a row error is kept as its two parts.
validateAndNormalizeTransactions(imported) ==
  IF ~isArray(imported)
    THEN [threw |-> TRUE, message |-> <<"Transactions must be an array">>,
          transactions |-> <<>>, errors |-> JSNull]
    ELSE
      LET rows == imported.items
          outcome == [i \in DOMAIN rows |-> NormalizeRow(rows[i], i - 1)]
          good == SelectSeq(outcome, LAMBDA o : o.ok)
          bad == SelectSeq([i \in DOMAIN rows |->
                              [row |-> i, ok |-> outcome[i].ok,
                               message |-> IF outcome[i].ok THEN "" ELSE outcome[i].error]],
                           LAMBDA o : ~o.ok)
          normalized == [i \in DOMAIN good |-> good[i].record]
          errors == [i \in DOMAIN bad |-> [row |-> bad[i].row, message |-> bad[i].message]]
      IN IF ImportFails(normalized, errors)
           THEN [threw |-> TRUE, message |-> <<"Import failed:">> \o errors,
                 transactions |-> <<>>, errors |-> JSNull]
           ELSE [threw |-> FALSE, message |-> <<>>,
                 transactions |-> normalized,
                 errors |-> IF Len(errors) > 0 THEN JSArray(errors) ELSE JSNull]

\* The files the user may select in the import dialog: the rows read from
\* the file (parseCSV's objects, or the transactions array of a JSON backup).
RowLunch == [id |-> "", date |-> "2024-01-01", type |-> "Expense", amount |-> "25",
             description |-> "Lunch", categoryId |-> "cat-food"]
RowBad == [id |-> "", date |-> "bad", type |-> "expense", amount |-> "abc",
           description |-> "", categoryId |-> ""]
NoFile == [type |-> "none", rows |-> <<>>]
ImportFiles ==
  { NoFile,
    [type |-> "csv", rows |-> <<RowLunch>>],
    [type |-> "csv", rows |-> <<RowLunch, RowBad>>],
    [type |-> "json", rows |-> <<RowLunch>>],
    [type |-> "json", rows |-> <<RowBad>>] }

\* Header.handleImport(importedData): shows a toast; it calls no store function.
HeaderHandleImport(importedData) ==
  UNCHANGED <<pendTransactions, pendCategories, pendBudgets, idCount, setCalls>>

\* DataImportModal.handleImport: validate the selected file, announce the
\* result, hand the data to the parent's onImport and close the dialog.
handleImport(selectedFile) ==
  LET validated == validateAndNormalizeTransactions(JSArray(selectedFile.rows))
      outcome == IF selectedFile = NoFile THEN "no-file"
                 ELSE IF validated.threw THEN "failed"
                 ELSE "complete"
  IN /\ HeaderHandleImport([transactions |-> validated.transactions])
     /\ Called("import", [file |-> selectedFile],
               [outcome |-> outcome,
                transactions |-> IF outcome = "complete"
                                 THEN validated.transactions ELSE <<>>],
               FALSE, dirty)

----------------------------------------------------------------------------
(* The inputs of the store functions *)

TransactionInputs ==
  { [amount |-> 40, description |-> "Lunch", categoryId |-> "cat-food",
     type |-> "expense", date |-> "2024-01-15T00:00:00.000Z"],
    [amount |-> 500, description |-> "Salary", categoryId |-> NULL,
     type |-> "income", date |-> ""] }

TransactionUpdates == { [amount |-> 60, categoryId |-> "cat-transport"] }

CategoryInputs == { [name |-> "Pets", color |-> "#84CC16", icon |-> "Dog"] }

CategoryUpdates == { [name |-> "Groceries"] }

BudgetInputs ==
  { [categoryId |-> k[1], period |-> k[2], amount |-> a] :
      k \in BudgetPairs, a \in {200, 250} }

IdsOf(collection) == {collection[i].id : i \in DOMAIN collection}

TransactionIdArgs == IdsOf(transactions) \cup {"trans_missing"}
CategoryIdArgs == {"cat-food", "cat-x", CategoryId(1)}
BudgetIdArgs == IdsOf(budgets) \cup {"budget_missing"}

----------------------------------------------------------------------------
(* What localStorage may hold when the application is opened *)

StoredTransaction ==
  [id |-> "trans_0", amount |-> 25, description |-> "Lunch", categoryId |-> "cat-x",
   date |-> "2024-01-01T00:00:00.000Z", type |-> "expense"]

StoredCategory == [id |-> "cat-x", name |-> "Custom", color |-> "#F97316", icon |-> "Star"]

StoredBudget == [id |-> "budget_0", categoryId |-> "cat-x", amount |-> 100, period |-> "monthly"]

StoredTexts(key) ==
  {Missing, Garbage, JSONstringify(JSObject)} \cup
  ( CASE key = TRANSACTIONS -> { JSONstringify(JSArray(<<StoredTransaction>>)) }
      [] key = CATEGORIES -> { JSONstringify(JSArray(<<>>)),
                               JSONstringify(JSArray(<<StoredCategory>>)) }
      [] key = BUDGETS -> { JSONstringify(JSArray(<<StoredBudget>>)) } )

\* No utility function has been called.
NoCalc == [fn |-> "none"]

MountResult == [op |-> "mount", args |-> <<>>, ret |-> NULL, threw |-> FALSE]

\* The provider has rendered once with empty collections; its mount effects
\* have not run yet.
Init ==
  /\ storage \in [STORAGE_KEYS -> UNION {StoredTexts(k) : k \in STORAGE_KEYS}]
  /\ \A k \in STORAGE_KEYS : storage[k] \in StoredTexts(k)
  /\ idCount = [transactions |-> 0, categories |-> 0, budgets |-> 0]
  /\ transactions = <<>> /\ categories = <<>> /\ budgets = <<>>
  /\ pendTransactions = <<>> /\ pendCategories = <<>> /\ pendBudgets = <<>>
  /\ dirty = {}
  /\ phase = "effects"
  /\ effectQ = MountEffects
  /\ result = MountResult
  /\ io = <<>>
  /\ step = "mount"
  /\ initial = storage
  /\ faults = 0
  /\ events = 0
  /\ setCalls = [p \in BudgetPairs |-> NoSetCall]
  /\ calc = NoCalc

\* The user reloads the page: the provider mounts again over what
\* localStorage holds now.
Reload ==
  /\ phase = "idle"
  /\ transactions' = <<>> /\ categories' = <<>> /\ budgets' = <<>>
  /\ pendTransactions' = <<>> /\ pendCategories' = <<>> /\ pendBudgets' = <<>>
  /\ dirty' = {}
  /\ phase' = "effects"
  /\ effectQ' = MountEffects
  /\ result' = MountResult
  /\ io' = <<>>
  /\ step' = "mount"
  /\ initial' = storage
  /\ setCalls' = [p \in DOMAIN setCalls |-> NoSetCall]
  /\ UNCHANGED <<calc, storage, idCount, faults, events>>

\* An event handler of the user interface calls one store function; React
\* commits and runs the effects before the next event is handled.
Next ==
  \/ Hydrate
  \/ PersistTransactions
  \/ PersistCategories
  \/ PersistBudgets
  \/ Render
  \/ Settle
  \/ Reload
  \/ phase = "idle" /\ \E t \in TransactionInputs : addTransaction(t)
  \/ phase = "idle" /\ \E id \in TransactionIdArgs, u \in TransactionUpdates : updateTransaction(id, u)
  \/ phase = "idle" /\ \E id \in TransactionIdArgs : deleteTransaction(id)
  \/ phase = "idle" /\ \E c \in CategoryInputs : addCategory(c)
  \/ phase = "idle" /\ \E id \in CategoryIdArgs, u \in CategoryUpdates : updateCategory(id, u)
  \/ phase = "idle" /\ \E id \in CategoryIdArgs : deleteCategory(id)
  \/ phase = "idle" /\ \E b \in BudgetInputs : setBudget(b)
  \/ phase = "idle" /\ \E id \in BudgetIdArgs : deleteBudget(id)
  \/ phase = "idle" /\ \E f \in ImportFiles : handleImport(f)

Spec == Init /\ [][Next]_vars

----------------------------------------------------------------------------
(* Properties *)

\* The state right after a handler called the store function op: the committed
\* collections are still those the call saw, the pending ones are its result.
JustCalled(op) == step = "call" /\ result.op = op

References(txs, c) == \E i \in DOMAIN txs : txs[i].categoryId = c

\* C1: deleteCategory(c), for a category c that at least one transaction
\* references, raises an error and leaves the categories, the budgets and the
\* transactions unchanged: nothing is queued and no render follows.
C1_DeleteCategoryBlocked ==
  (JustCalled("deleteCategory") /\ References(transactions, result.args.id))
    => /\ result.threw
       /\ pendCategories = categories
       /\ pendBudgets = budgets
       /\ pendTransactions = transactions
       /\ dirty = {}
       /\ phase = "settled"

C1_Witness ==
  /\ JustCalled("deleteCategory")
  /\ References(transactions, result.args.id)
  /\ result.args.id \in {categories[i].id : i \in DOMAIN categories}
  /\ \E i \in DOMAIN budgets : budgets[i].categoryId = result.args.id

\* C2: deleteCategory(c), for a category c that no transaction references,
\* removes exactly c from the categories and exactly the budgets of c from the
\* budgets; the other categories, the other budgets and the transactions stay.
C2_DeleteCategoryCascade ==
  (JustCalled("deleteCategory") /\ ~References(transactions, result.args.id))
    => /\ ~result.threw
       /\ pendCategories = SelectSeq(categories, LAMBDA c : c.id # result.args.id)
       /\ pendBudgets = SelectSeq(budgets, LAMBDA b : b.categoryId # result.args.id)
       /\ pendTransactions = transactions
       /\ dirty = {"categories", "budgets"}

C2_Witness ==
  /\ JustCalled("deleteCategory")
  /\ ~result.threw
  /\ Len(transactions) > 0
  /\ Len(pendCategories) = Len(categories) - 1
  /\ Len(pendCategories) > 0
  /\ Len(pendBudgets) = Len(budgets) - 1
  /\ Len(pendBudgets) > 0

\* No two budgets of the array have the same (categoryId, period).
UniquePairs(bs) ==
  \A i, j \in DOMAIN bs :
    (bs[i].categoryId = bs[j].categoryId /\ bs[i].period = bs[j].period) => i = j

\* C3: whatever setBudget, deleteBudget and deleteCategory calls are made, the
\* budgets hold at most one budget per (categoryId, period).
C3_OneBudgetPerPair == UniquePairs(budgets) /\ UniquePairs(pendBudgets)

C3_Witness ==
  /\ step = "persistBudgets"
  /\ result.op = "setBudget"
  /\ Len(budgets) = 2
  /\ \E i \in DOMAIN budgets : budgets[i].id = result.ret /\ budgets[i].id = "budget_0"

\* The budgets of the array for the pair.
ForPair(bs, p) == {i \in DOMAIN bs : <<bs[i].categoryId, bs[i].period>> = p}

\* C4: over the setBudget calls made for one (categoryId, period), every call
\* returns the id the first call returned, the budgets hold exactly one entry
\* for the pair, with that id, and its amount is the amount of the last call.
C4_SetBudgetUpsert ==
  \A p \in DOMAIN setCalls :
    setCalls[p].id # NULL =>
      /\ \E i \in ForPair(pendBudgets, p) :
           /\ ForPair(pendBudgets, p) = {i}
           /\ pendBudgets[i].id = setCalls[p].id
           /\ pendBudgets[i].amount = setCalls[p].amount
      /\ dirty = {} =>
           \E i \in ForPair(budgets, p) :
             /\ ForPair(budgets, p) = {i}
             /\ budgets[i].id = setCalls[p].id
             /\ budgets[i].amount = setCalls[p].amount
      /\ (JustCalled("setBudget")
          /\ <<result.args.budget.categoryId, result.args.budget.period>> = p)
           => /\ result.ret = setCalls[p].id
              /\ setCalls[p].amount = result.args.budget.amount

\* The second of two calls for ('cat-food', 'monthly'), 200 then 250.
C4_Witness ==
  /\ JustCalled("setBudget")
  /\ result.args.budget = [categoryId |-> "cat-food", period |-> "monthly", amount |-> 250]
  /\ result.ret = "budget_1"
  /\ \E i \in DOMAIN budgets : budgets[i].id = "budget_1" /\ budgets[i].amount = 200
  /\ \E i \in DOMAIN pendBudgets :
       pendBudgets[i].id = "budget_1" /\ pendBudgets[i].amount = 250


\* The collections a store call sets (the mount sets all three).
Affected(r) ==
  CASE r.op \in {"addTransaction", "updateTransaction", "deleteTransaction"} -> {"transactions"}
    [] r.op \in {"addCategory", "updateCategory"} -> {"categories"}
    [] r.op = "deleteCategory" /\ ~r.threw -> {"categories", "budgets"}
    [] r.op \in {"setBudget", "deleteBudget"} -> {"budgets"}
    [] r.op = "mount" -> {"transactions", "categories", "budgets"}
    [] OTHER -> {}

IsMutation(r) == r.op \notin {"mount", "none", "import"} /\ ~r.threw

EffectFor(c) ==
  CASE c = "transactions" -> "persistTransactions"
    [] c = "categories" -> "persistCategories"
    [] c = "budgets" -> "persistBudgets"

KeyFor(c) ==
  CASE c = "transactions" -> TRANSACTIONS
    [] c = "categories" -> CATEGORIES
    [] c = "budgets" -> BUDGETS

Committed(c) ==
  CASE c = "transactions" -> transactions
    [] c = "categories" -> categories
    [] c = "budgets" -> budgets

\* The last step wrote the whole committed collection c, and the record holds
\* it if the write was accepted.
WroteWhole(c) ==
  /\ Len(io) = 1
  /\ io[1].fn = "saveToStorage"
  /\ io[1].key = KeyFor(c)
  /\ io[1].value = [type |-> "array", items |-> Committed(c)]
  /\ io[1].saved =>
       storage[KeyFor(c)] = [kind |-> "json", value |-> [type |-> "array", items |-> Committed(c)]]

NoList(text) == text.kind # "json" \/ text.value.type # "array"
NoCategories(text) == NoList(text) \/ text.value.items = <<>>

C6_Hydration ==
  /\ step = "hydrate" =>
       /\ NoCategories(initial[CATEGORIES]) =>
            /\ pendCategories = DEFAULT_CATEGORIES
            /\ Len(pendCategories) = 8
            /\ \E i \in DOMAIN io :
                 /\ io[i].fn = "saveToStorage"
                 /\ io[i].key = CATEGORIES
                 /\ io[i].value = [type |-> "array", items |-> DEFAULT_CATEGORIES]
                 /\ io[i].saved =>
                      storage[CATEGORIES] =
                        [kind |-> "json", value |-> [type |-> "array", items |-> DEFAULT_CATEGORIES]]
       /\ NoList(initial[TRANSACTIONS]) => pendTransactions = <<>>
       /\ NoList(initial[BUDGETS]) => pendBudgets = <<>>
  /\ (result.op = "mount" /\ step \notin {"mount", "hydrate"} /\ dirty = {}) =>
       /\ NoCategories(initial[CATEGORIES]) => categories = DEFAULT_CATEGORIES
       /\ NoList(initial[TRANSACTIONS]) => transactions = <<>>
       /\ NoList(initial[BUDGETS]) => budgets = <<>>

C6_Witness ==
  /\ result.op = "mount" /\ step = "render"
  /\ initial[CATEGORIES] = [kind |-> "json", value |-> [type |-> "array", items |-> <<>>]]
  /\ initial[TRANSACTIONS].kind = "garbage"
  /\ initial[BUDGETS].kind = "json" /\ initial[BUDGETS].value.type = "object"
  /\ categories = DEFAULT_CATEGORIES
  /\ storage[CATEGORIES].value.items = DEFAULT_CATEGORIES

\* C7: after an import completes in the import dialog, every validated
\* transaction of the file is in the store's transactions.
C7_ImportReachesStore ==
  (JustCalled("import") /\ result.ret.outcome = "complete") =>
    \A i \in DOMAIN result.ret.transactions :
      \E j \in DOMAIN pendTransactions :
        pendTransactions[j].id = result.ret.transactions[i].id

SaveFailed(log) == \E i \in DOMAIN log : log[i].fn = "saveToStorage" /\ ~log[i].saved

\* C8: a write-through write that fails leaves the in-memory collections as
\* the mutation produced them and raises nothing to the caller of the
\* mutation; a write to a record is issued only by the persist effect of its
\* collection, which is scheduled only by a commit that set the collection.
C8_Step ==
  /\ (step' \in {"persistTransactions", "persistCategories", "persistBudgets"}
      /\ SaveFailed(io')) =>
       /\ UNCHANGED <<transactions, categories, budgets,
                      pendTransactions, pendCategories, pendBudgets>>
       /\ result' = result
       /\ ~result'.threw
       /\ \A i \in DOMAIN io' : ~io'[i].threw
       /\ IsMutation(result') =>
            /\ transactions' = pendTransactions'
            /\ categories' = pendCategories'
            /\ budgets' = pendBudgets'
  /\ \A i \in DOMAIN io' :
       (io'[i].fn = "saveToStorage" /\ step' # "hydrate") =>
         /\ phase = "effects"
         /\ \E c \in {"transactions", "categories", "budgets"} :
              /\ io'[i].key = KeyFor(c)
              /\ Head(effectQ) = EffectFor(c)
  /\ step' = "render" =>
       \A i \in DOMAIN effectQ' :
         \E c \in Affected(result') : effectQ'[i] = EffectFor(c)

C8_FailedWriteNotRetried == [][C8_Step]_vars

\* The write of the transactions failed; a later setBudget wrote the budgets
\* only, and the transactions record is still the stale one.
C8_Witness ==
  /\ step = "persistBudgets"
  /\ result.op = "setBudget"
  /\ faults = 1
  /\ Len(transactions) > 0
  /\ storage[TRANSACTIONS] # [kind |-> "json", value |-> [type |-> "array", items |-> transactions]]
  /\ storage[BUDGETS] = [kind |-> "json", value |-> [type |-> "array", items |-> budgets]]

\* C9: saveToStorage never throws; a rejected write returns false and leaves
\* every key as it was; an accepted write returns true (and sets its key only).
C9_SaveToStorage ==
  \A i \in DOMAIN io :
    io[i].fn = "saveToStorage" =>
      /\ ~io[i].threw
      /\ io[i].fault # "none" => (io[i].saved = FALSE /\ io[i].after = io[i].before)
      /\ io[i].fault = "none" =>
           /\ io[i].saved = TRUE
           /\ io[i].after[io[i].key] = [kind |-> "json", value |-> io[i].value]
           /\ \A k \in STORAGE_KEYS \ {io[i].key} : io[i].after[k] = io[i].before[k]

C9_Witness ==
  \E i \in DOMAIN io :
    /\ io[i].fn = "saveToStorage"
    /\ io[i].fault = "rejected"
    /\ io[i].before[io[i].key].kind = "json"
    /\ io[i].before[io[i].key].value # io[i].value
    /\ storage = io[i].before

\* C10: getFromStorage never throws, returns null for a key that is missing or
\* whose text does not decode, and leaves localStorage as it was.
C10_GetFromStorage ==
  \A i \in DOMAIN io :
    io[i].fn = "getFromStorage" =>
      /\ ~io[i].threw
      /\ io[i].after = io[i].before
      /\ io[i].before[io[i].key].kind \in {"missing", "garbage"} =>
           io[i].returned = [type |-> "null", items |-> <<>>]
      /\ io[i].before[io[i].key].kind = "json" =>
           io[i].returned = io[i].before[io[i].key].value

C10_Witness ==
  /\ step = "hydrate"
  /\ \E i, j \in DOMAIN io :
       /\ io[i].fn = "getFromStorage" /\ io[i].before[io[i].key].kind = "garbage"
       /\ io[j].fn = "getFromStorage" /\ io[j].before[io[j].key].kind = "missing"
  /\ storage[TRANSACTIONS].kind = "garbage"

----------------------------------------------------------------------------
(* The utility functions, called on their own.  The store plays no part: it *)
(* stays as it is before the provider mounts over an empty localStorage.    *)

storeVars == <<transactions, categories, budgets, pendTransactions,
               pendCategories, pendBudgets, dirty, storage, phase, effectQ,
               idCount, result, io, step, initial, faults, events, setCalls>>

\* The store holding the transactions txs and the categories cats, with no
\* call in progress.
StoreHolding(txs, cats) ==
  /\ storage = [k \in STORAGE_KEYS |-> Missing]
  /\ idCount = [transactions |-> 0, categories |-> 0, budgets |-> 0]
  /\ transactions = txs /\ categories = cats /\ budgets = <<>>
  /\ pendTransactions = txs /\ pendCategories = cats /\ pendBudgets = <<>>
  /\ dirty = {}
  /\ phase = "idle"
  /\ effectQ = <<>>
  /\ result = NoCall
  /\ io = <<>>
  /\ step = "idle"
  /\ initial = NoSnapshot
  /\ faults = 0
  /\ events = 0
  /\ setCalls = [p \in BudgetPairs |-> NoSetCall]

StoreAtRest == StoreHolding(<<>>, <<>>)

\* All sequences over S of length at most n.
SeqsUpTo(S, n) == UNION {[1..k -> S] : k \in 0..n}

----------------------------------------------------------------------------
(* validateAndNormalizeTransactions on the rows of an imported file *)

MaxRows == 3             \* rows of an imported file

\* The rows a file may hold (no row carries an id, so the id of a returned
\* record tells the row it was made from).
RowNoDate == [id |-> "", date |-> "", type |-> "INCOME", amount |-> "25",
              description |-> " Lunch ", categoryId |-> ""]
RowZero == [id |-> "", date |-> "2024-02-29", type |-> "income", amount |-> "0",
            description |-> "Refund", categoryId |-> "cat-food"]
RowTransfer == [id |-> "", date |-> "2024-01-01", type |-> "transfer", amount |-> "25",
                description |-> "Move", categoryId |-> ""]
ImportRows == {RowLunch, RowBad, RowNoDate, RowZero, RowTransfer}

ImportArgs == {JSObject} \cup {JSArray(rows) : rows \in SeqsUpTo(ImportRows, MaxRows)}

InitImport ==
  /\ StoreAtRest
  /\ calc \in {[fn |-> "imported", imported |-> a] : a \in ImportArgs}

CallValidate ==
  /\ calc.fn = "imported"
  /\ calc' = [fn |-> "validateAndNormalizeTransactions",
              imported |-> calc.imported,
              out |-> validateAndNormalizeTransactions(calc.imported)]
  /\ UNCHANGED storeVars

NextImport == CallValidate

SpecImport == InitImport /\ [][NextImport]_vars

Validated == calc.fn = "validateAndNormalizeTransactions"

\* A text that new Date() parses to a valid timestamp.
IsTimestamp(text) ==
  text \in {"2024-01-01", "2024-02-29",
            "2024-01-01T00:00:00.000Z", "2024-02-29T00:00:00.000Z"}

\* C11: every record returned by validateAndNormalizeTransactions has a date
\* that parses to a valid timestamp, an amount greater than 0 and the type
\* income or expense, and every row failing one of the three checks is
\* dropped and reported.
C11_ReturnedAreValid ==
  (Validated /\ ~calc.out.threw) =>
    /\ \A j \in DOMAIN calc.out.transactions :
         /\ IsTimestamp(calc.out.transactions[j].date)
         /\ calc.out.transactions[j].amount > 0
         /\ calc.out.transactions[j].type \in {"income", "expense"}
    /\ \A i \in DOMAIN calc.imported.items :
         ~IsTimestamp(calc.imported.items[i].date) =>
           /\ \E k \in DOMAIN calc.out.errors.items : calc.out.errors.items[k].row = i
           /\ \A j \in DOMAIN calc.out.transactions :
                calc.out.transactions[j].id # "imported_" \o ToString(i - 1)

\* The rows returned (by the index in the generated id) and the rows reported.
ReturnedRows(out) ==
  {i \in DOMAIN calc.imported.items :
     \E j \in DOMAIN out.transactions :
       out.transactions[j].id = "imported_" \o ToString(i - 1)}
ReportedRows(errors) == {errors[k].row : k \in DOMAIN errors}

\* A row the validation rejects: a date given that does not parse, an amount
\* that is no number above 0, or a type that is neither income nor expense in
\* any letter case.
Rejected(row) ==
  \/ row.date \notin {"", "2024-01-01", "2024-02-29"}
  \/ row.amount \notin {"25"}
  \/ row.type \notin {"income", "expense", "INCOME", "Expense"}

----------------------------------------------------------------------------
(* src/utils/export.js arrayToCSV and src/utils/import.js parseCSV.  A text  *)
(* is the sequence of its characters; an object is the sequence of its      *)
(* <<key, value>> properties in insertion order.                            *)

MaxChars == 3            \* characters of the longest field of the exported data

CsvChars == {"a", ",", "\"", "\n", " "}

\* text.includes(c)
includes(text, c) == \E i \in DOMAIN text : text[i] = c

\* texts.join(sep)
RECURSIVE join(_, _)
join(texts, sep) ==
  IF texts = <<>> THEN <<>>
  ELSE IF Len(texts) = 1 THEN texts[1]
  ELSE texts[1] \o sep \o join(Tail(texts), sep)

\* text.split('\n')
RECURSIVE split(_)
split(text) ==
  IF ~includes(text, "\n") THEN <<text>>
  ELSE LET k == CHOOSE i \in DOMAIN text :
                  text[i] = "\n" /\ \A j \in 1..(i - 1) : text[j] # "\n"
       IN <<SubSeq(text, 1, k - 1)>> \o split(SubSeq(text, k + 1, Len(text)))

\* text.trim()
RECURSIVE trim(_)
trim(text) ==
  IF text = <<>> THEN text
  ELSE IF Head(text) \in {" ", "\n"} THEN trim(Tail(text))
  ELSE IF text[Len(text)] \in {" ", "\n"} THEN trim(SubSeq(text, 1, Len(text) - 1))
  ELSE text

\* item[header]
GetProp(obj, key) ==
  IF \E i \in DOMAIN obj : obj[i][1] = key
    THEN obj[CHOOSE i \in DOMAIN obj : obj[i][1] = key][2]
    ELSE <<>>

\* obj[key] = value
SetProp(obj, key, value) ==
  IF \E i \in DOMAIN obj : obj[i][1] = key
    THEN [i \in DOMAIN obj |-> IF obj[i][1] = key THEN <<key, value>> ELSE obj[i]]
    ELSE Append(obj, <<key, value>>)

\* Object.keys(obj)
ObjectKeys(obj) == [i \in DOMAIN obj |-> obj[i][1]]

\* stringValue.replace(/"/g, '""')
RECURSIVE DoubleQuotes(_)
DoubleQuotes(text) ==
  IF text = <<>> THEN <<>>
  ELSE (IF Head(text) = "\"" THEN <<"\"", "\"">> ELSE <<Head(text)>>)
         \o DoubleQuotes(Tail(text))

\* A plausible slip: a value holding a newline is not quoted.
escapeCSVNoNewline(value) ==
  IF includes(value, ",") \/ includes(value, "\"")
    THEN <<"\"">> \o DoubleQuotes(value) \o <<"\"">>
    ELSE value

escapeCSV(value) ==
  IF includes(value, ",") \/ includes(value, "\"") \/ includes(value, "\n")
    THEN <<"\"">> \o DoubleQuotes(value) \o <<"\"">>
    ELSE value

\* arrayToCSV(data, headers), headers being null (<<>>) or a list of names.
arrayToCSV(data, headers) ==
  IF data = <<>> THEN <<>>
  ELSE LET csvHeaders == IF headers # <<>> THEN headers ELSE ObjectKeys(data[1])
           line(item) == join([h \in DOMAIN csvHeaders |->
                                 escapeCSV(GetProp(item, csvHeaders[h]))], <<",">>)
           rows == <<join([h \in DOMAIN csvHeaders |-> escapeCSV(csvHeaders[h])], <<",">>)>>
                     \o [i \in DOMAIN data |-> line(data[i])]
       IN join(rows, <<"\n">>)

\* The for loop of parseCSV over one line, from position i on.
RECURSIVE ScanLine(_, _, _, _, _)
ScanLine(line, i, inQuotes, currentValue, values) ==
  IF i > Len(line) THEN Append(values, trim(currentValue))
  ELSE LET char == line[i]
           nextChar == IF i + 1 <= Len(line) THEN line[i + 1] ELSE Undefined
       IN IF char = "\""
            THEN IF inQuotes /\ nextChar = "\""
                   THEN ScanLine(line, i + 2, inQuotes, Append(currentValue, "\""), values)
                   ELSE ScanLine(line, i + 1, ~inQuotes, currentValue, values)
          ELSE IF char = "," /\ ~inQuotes
            THEN ScanLine(line, i + 1, inQuotes, <<>>, Append(values, trim(currentValue)))
          ELSE ScanLine(line, i + 1, inQuotes, Append(currentValue, char), values)

\* The object parseCSV builds for a row from the header row.
RECURSIVE RowObject(_, _, _, _)
RowObject(headers, row, index, obj) ==
  IF index > Len(headers) THEN obj
  ELSE RowObject(headers, row, index + 1,
                 SetProp(obj, trim(headers[index]),
                         IF index <= Len(row) THEN row[index] ELSE <<>>))

\* parseCSV(csv, hasHeaders)
parseCSV(csv, hasHeaders) ==
  LET lines == SelectSeq(split(csv), LAMBDA line : trim(line) # <<>>)
      rows == [i \in DOMAIN lines |-> ScanLine(lines[i], 1, FALSE, <<>>, <<>>)]
  IN IF lines = <<>> THEN <<>>
     ELSE IF hasHeaders
       THEN [i \in 1..(Len(rows) - 1) |-> RowObject(rows[1], rows[i + 1], 1, <<>>)]
       ELSE rows

\* The data exported: one object with the two properties k (at most one
\* character) and v.
CsvData ==
  {<< << <<<<"k">>, a>>, <<<<"v">>, b>> >> >> :
     a \in SeqsUpTo(CsvChars, 1), b \in SeqsUpTo(CsvChars, MaxChars)}

InitCSV ==
  /\ StoreAtRest
  /\ calc \in {[fn |-> "data", data |-> d] : d \in CsvData}

CallArrayToCSV ==
  /\ calc.fn = "data"
  /\ \E headers \in {<<>>, <<<<"k">>, <<"v">>>>} :
       calc' = [fn |-> "arrayToCSV", data |-> calc.data, headers |-> headers,
                csv |-> arrayToCSV(calc.data, headers)]
  /\ UNCHANGED storeVars

CallParseCSV ==
  /\ calc.fn = "arrayToCSV"
  /\ \E hasHeaders \in BOOLEAN :
       calc' = [fn |-> "parseCSV", data |-> calc.data, csv |-> calc.csv,
                hasHeaders |-> hasHeaders, out |-> parseCSV(calc.csv, hasHeaders)]
  /\ UNCHANGED storeVars

NextCSV == CallArrayToCSV \/ CallParseCSV

SpecCSV == InitCSV /\ [][NextCSV]_vars

\* A field that neither trimming nor the skipping of blank lines can change:
\* it is not empty and neither starts nor ends with white space.
Plain(text) ==
  /\ text # <<>>
  /\ text[1] \notin {" ", "\n"}
  /\ text[Len(text)] \notin {" ", "\n"}

\* C13: parseCSV honours quoted fields (a delimiter or a newline inside
\* quotes ends neither the field nor the row, a doubled quote is one quote),
\* so the text arrayToCSV produces for data is parsed back into as many rows
\* with the same field strings.
C13_ParseHonoursQuotes ==
  (/\ calc.fn = "parseCSV" /\ calc.hasHeaders
   /\ \A i \in DOMAIN calc.data : \A p \in DOMAIN calc.data[i] : Plain(calc.data[i][p][2]))
    => /\ Len(calc.out) = Len(calc.data)
       /\ \A i \in DOMAIN calc.data : calc.out[i] = calc.data[i]

----------------------------------------------------------------------------
(* Dates.  A day is the number of a calendar day; an instant is a number of *)
(* hours, the UTC midnight that starts day d being hour 24 * d.  The text   *)
(* of a date input ("yyyy-MM-dd") is kept as its day, the text of           *)
(* toISOString() as its instant.                                            *)

\* The offsets (hours east of UTC) of the time zones the browser may be in.
TimeZones == {0 - 5, 0, 8}

\* new Date("yyyy-MM-dd"): a date-only text is read as UTC midnight.
NewDateOfDay(day) == 24 * day

\* new Date(text).toISOString() for the text of a date input.
DayToISOString(day) == [iso |-> NewDateOfDay(day)]

\* date-fns parseISO of a date-only text: midnight in the local time zone.
parseISODay(day, tz) == 24 * day - tz

\* date-fns parseISO / new Date of an ISO text with time and Z: that instant.
parseISO(date) == date.iso

\* The releases of date-fns differ on an interval whose start is after its
\* end: release 2 throws RangeError, release 3 swaps the two ends.
DateFnsReleases == {2, 3}

isWithinIntervalThrows(start, end, release) == release = 2 /\ start > end

isWithinInterval(time, start, end, release) ==
  IF start <= end THEN start <= time /\ time <= end
  ELSE release = 3 /\ end <= time /\ time <= start

----------------------------------------------------------------------------
(* src/components/transactions/FilterBar.js: TransactionList.filteredTransactions *)

MaxTransactions == 3     \* transactions in the store

\* toLowerCase of a text (a sequence of characters).
toLowerCase(text) ==
  [i \in DOMAIN text |-> CASE text[i] = "A" -> "a" [] text[i] = "B" -> "b" [] OTHER -> text[i]]

\* text.includes(part) for texts
includesText(text, part) ==
  \E k \in 0..(Len(text) - Len(part)) :
    \A i \in DOMAIN part : text[k + i] = part[i]

\* The comparison of Array.prototype.sort((a, b) => new Date(b.date) - new Date(a.date)):
\* a stable sort, so x is placed after every record that is not older.
RECURSIVE InsertByDateDesc(_, _)
InsertByDateDesc(sorted, x) ==
  IF sorted = <<>> THEN <<x>>
  ELSE IF parseISO(Head(sorted).date) >= parseISO(x.date)
    THEN <<Head(sorted)>> \o InsertByDateDesc(Tail(sorted), x)
    ELSE <<x>> \o sorted

RECURSIVE SortByDateDesc(_)
SortByDateDesc(list) ==
  IF list = <<>> THEN <<>>
  ELSE InsertByDateDesc(SortByDateDesc(SubSeq(list, 1, Len(list) - 1)), list[Len(list)])

\* A plausible slip: the search term is not lower-cased.
SearchMatchesCase(transaction, debouncedSearchTerm) ==
  includesText(transaction.description, debouncedSearchTerm)

\* transaction.description.toLowerCase().includes(debouncedSearchTerm)
SearchMatches(transaction, debouncedSearchTerm) ==
  includesText(toLowerCase(transaction.description), debouncedSearchTerm)

\* The callback of the date-range filter (0 stands for the empty text of a
\* date input that is not set).
DateMatches(transaction, dateFrom, dateTo, env) ==
  LET transactionDate == parseISO(transaction.date) IN
  IF dateFrom # 0 /\ dateTo # 0
    THEN isWithinInterval(transactionDate, parseISODay(dateFrom, env.tz),
                          parseISODay(dateTo, env.tz), env.dateFns)
  ELSE IF dateFrom # 0 THEN transactionDate >= parseISODay(dateFrom, env.tz)
  ELSE IF dateTo # 0 THEN transactionDate <= parseISODay(dateTo, env.tz)
  ELSE TRUE

\* A plausible slip: let filtered = transactions, the store's array itself.
SharesArrayNoCopy(list) == TRUE

\* let filtered = [...transactions]: whether filtered is the store's array
\* (a spread makes a new array).
SharesArray(list) == FALSE

\* filteredTransactions: the view, the store's array afterwards, and whether
\* the computation threw.
filteredTransactions(list, f, env) ==
  LET debouncedSearchTerm == trim(toLowerCase(f.searchTerm))
      bySearch == IF debouncedSearchTerm # <<>>
                    THEN SelectSeq(list, LAMBDA t : SearchMatches(t, debouncedSearchTerm))
                    ELSE list
      byCategory == IF f.categoryFilter # ""
                      THEN SelectSeq(bySearch, LAMBDA t : t.categoryId = f.categoryFilter)
                      ELSE bySearch
      byType == IF f.typeFilter # ""
                  THEN SelectSeq(byCategory, LAMBDA t : t.type = f.typeFilter)
                  ELSE byCategory
      throws == /\ f.dateFrom # 0 /\ f.dateTo # 0 /\ byType # <<>>
                /\ isWithinIntervalThrows(parseISODay(f.dateFrom, env.tz),
                                          parseISODay(f.dateTo, env.tz), env.dateFns)
      byDate == IF f.dateFrom # 0 \/ f.dateTo # 0
                  THEN SelectSeq(byType, LAMBDA t : DateMatches(t, f.dateFrom, f.dateTo, env))
                  ELSE byType
      \* every filter that applies makes a new array; sort works in place
      sortsSource == /\ SharesArray(list)
                     /\ debouncedSearchTerm = <<>> /\ f.categoryFilter = ""
                     /\ f.typeFilter = "" /\ f.dateFrom = 0 /\ f.dateTo = 0
  IN IF throws
       THEN [threw |-> TRUE, view |-> <<>>, source |-> list]
       ELSE [threw |-> FALSE, view |-> SortByDateDesc(byDate),
             source |-> IF sortsSource THEN SortByDateDesc(list) ELSE list]


\* The transactions the store may hold, each entered in the transaction form
\* with a date input (so its date is new Date(day).toISOString()).
FormTransaction(id, description, categoryId, type, day) ==
  [id |-> id, description |-> description, categoryId |-> categoryId,
   type |-> type, amount |-> 40, date |-> DayToISOString(day)]

StoredPool ==
  { FormTransaction("t1", <<"A", "b">>, "cat-food", "expense", 1),
    FormTransaction("t2", <<"b", "a">>, "cat-food", "expense", 2),
    FormTransaction("t3", <<"B">>, NULL, "income", 2),
    FormTransaction("t4", <<"a", "b">>, "cat-x", "expense", 3) }

\* The arrays of at most n distinct records of pool.
ListsOf(pool, n) ==
  {l \in SeqsUpTo(pool, n) : \A i, j \in DOMAIN l : i # j => l[i] # l[j]}

FilterSpecs ==
  [searchTerm : {<<>>, <<"A", "B">>, <<"a">>},
   categoryFilter : {"", "cat-food"},
   typeFilter : {"", "expense"},
   dateFrom : 0..3,
   dateTo : 0..3]

Environments == [tz : TimeZones, dateFns : DateFnsReleases]

InitFilter ==
  /\ \E l \in ListsOf(StoredPool, MaxTransactions) : StoreHolding(l, <<>>)
  /\ calc \in {[fn |-> "filters", filter |-> f, env |-> e] :
                 f \in FilterSpecs, e \in Environments}

\* The list re-renders with the filter state: useMemo computes the view.
RenderTransactionList ==
  /\ calc.fn = "filters"
  /\ LET out == filteredTransactions(transactions, calc.filter, calc.env)
     IN /\ calc' = [fn |-> "filteredTransactions", filter |-> calc.filter,
                    env |-> calc.env, before |-> transactions,
                    threw |-> out.threw, view |-> out.view]
        /\ transactions' = out.source
  /\ UNCHANGED <<categories, budgets, pendTransactions, pendCategories,
                 pendBudgets, dirty, storage, phase, effectQ, idCount, result,
                 io, step, initial, faults, events, setCalls>>

NextFilter == RenderTransactionList

SpecFilter == InitFilter /\ [][NextFilter]_vars


Filtered == calc.fn = "filteredTransactions"

\* The records of list that satisfy every predicate the filter gives, the date
\* bounds being the instants the date inputs stand for in the time zone.
Satisfying(list, f, tz) ==
  SelectSeq(list, LAMBDA t :
    /\ f.searchTerm = <<>>
         \/ includesText(toLowerCase(t.description), toLowerCase(f.searchTerm))
    /\ f.categoryFilter = "" \/ t.categoryId = f.categoryFilter
    /\ f.typeFilter = "" \/ t.type = f.typeFilter
    /\ f.dateFrom = 0 \/ t.date.iso >= 24 * f.dateFrom - tz
    /\ f.dateTo = 0 \/ t.date.iso <= 24 * f.dateTo - tz)

SameRecords(a, b) ==
  /\ Len(a) = Len(b)
  /\ {a[i] : i \in DOMAIN a} = {b[i] : i \in DOMAIN b}

\* C14: for every filter the view holds exactly the transactions that satisfy
\* every given predicate (search text in any letter case, category, type,
\* date range), newest first, and the store's transactions and their order
\* are unchanged.
C14_FilteredView ==
  Filtered =>
    /\ ~calc.threw
    /\ SameRecords(calc.view, Satisfying(calc.before, calc.filter, calc.env.tz))
    /\ \A i, j \in DOMAIN calc.view :
         i < j => calc.view[i].date.iso >= calc.view[j].date.iso
    /\ transactions = calc.before

\* C15: with only the date bounds set, the view keeps exactly the
\* transactions entered with a day D such that dateFrom <= D <= dateTo, both
\* days included; one bound alone applies inclusively; no bound excludes
\* nothing.
C15_InclusiveDays ==
  (/\ Filtered
   /\ calc.filter.searchTerm = <<>> /\ calc.filter.categoryFilter = ""
   /\ calc.filter.typeFilter = ""
   /\ (calc.filter.dateFrom = 0 \/ calc.filter.dateTo = 0
         \/ calc.filter.dateFrom <= calc.filter.dateTo))
    => /\ ~calc.threw
       /\ \A i \in DOMAIN calc.before :
            LET D == calc.before[i].date.iso \div 24
            IN (\E j \in DOMAIN calc.view : calc.view[j] = calc.before[i])
                 <=> /\ calc.filter.dateFrom = 0 \/ calc.filter.dateFrom <= D
                     /\ calc.filter.dateTo = 0 \/ D <= calc.filter.dateTo

----------------------------------------------------------------------------
(* The calculation utilities: calculateTotalIncome, calculateTotalExpenses,  *)
(* calculateBalance, calculateCategorySpending and getCategoryBreakdown,     *)
(* and the current-month window of Dashboard.js and ExpenseChart.js.         *)

\* A Date argument: null, or the Date of an instant.
NoDate == [given |-> FALSE, time |-> 0]
DateAt(time) == [given |-> TRUE, time |-> time]

RECURSIVE SumAmounts(_)
SumAmounts(list) ==
  IF list = <<>> THEN 0 ELSE Head(list).amount + SumAmounts(Tail(list))

\* A plausible slip: a window needs one bound only.
WindowGivenEither(startDate, endDate) == startDate.given \/ endDate.given

\* startDate && endDate
WindowGiven(startDate, endDate) == startDate.given /\ endDate.given

\* The date test of the filter callbacks.
InWindow(transaction, startDate, endDate, release) ==
  WindowGiven(startDate, endDate) =>
    isWithinInterval(parseISO(transaction.date), startDate.time, endDate.time, release)

\* The filter callback calls isWithinInterval, which throws, for a record
\* that passed the tests before the date test.
WindowThrows(candidates, startDate, endDate, release) ==
  /\ candidates # <<>>
  /\ WindowGiven(startDate, endDate)
  /\ isWithinIntervalThrows(startDate.time, endDate.time, release)

\* The three sums share their end: the date test on the records that
\* passed the tests before it, then reduce.
SumInWindow(candidates, startDate, endDate, release) ==
  IF WindowThrows(candidates, startDate, endDate, release)
    THEN [threw |-> TRUE, value |-> 0]
    ELSE [threw |-> FALSE,
          value |-> SumAmounts(SelectSeq(candidates,
                      LAMBDA t : InWindow(t, startDate, endDate, release)))]

\* !Array.isArray(transactions) || transactions.length === 0, for a JS value
NothingToSum(list) == ~isArray(list) \/ Len(list.items) = 0

calculateTotalIncome(list, startDate, endDate, release) ==
  IF NothingToSum(list) THEN [threw |-> FALSE, value |-> 0]
  ELSE SumInWindow(SelectSeq(list.items, LAMBDA t : t.type = "income"),
                   startDate, endDate, release)

calculateTotalExpenses(list, startDate, endDate, release) ==
  IF NothingToSum(list) THEN [threw |-> FALSE, value |-> 0]
  ELSE SumInWindow(SelectSeq(list.items, LAMBDA t : t.type = "expense"),
                   startDate, endDate, release)

\* A plausible slip: the balance is taken over all dates.
calculateBalanceAllDates(list, startDate, endDate, release) ==
  LET income == calculateTotalIncome(list, NoDate, NoDate, release)
      expenses == calculateTotalExpenses(list, NoDate, NoDate, release)
  IN [threw |-> income.threw \/ expenses.threw, value |-> income.value - expenses.value]

calculateBalance(list, startDate, endDate, release) ==
  LET income == calculateTotalIncome(list, startDate, endDate, release)
      expenses == calculateTotalExpenses(list, startDate, endDate, release)
  IN [threw |-> income.threw \/ expenses.threw, value |-> income.value - expenses.value]

calculateCategorySpending(list, categoryId, startDate, endDate, release) ==
  IF NothingToSum(list) THEN [threw |-> FALSE, value |-> 0]
  ELSE SumInWindow(SelectSeq(list.items,
                             LAMBDA t : t.type = "expense" /\ t.categoryId = categoryId),
                   startDate, endDate, release)


\* The keys of categoryMap in the order they were first set.
RECURSIVE CategoryKeys(_)
CategoryKeys(list) ==
  IF list = <<>> THEN <<>>
  ELSE LET before == CategoryKeys(SubSeq(list, 1, Len(list) - 1))
           k == list[Len(list)].categoryId
       IN IF \E i \in DOMAIN before : before[i] = k THEN before ELSE Append(before, k)

\* A plausible slip: the fraction is rounded without the factor 100.
MathRoundFraction(amount, totalExpenses) ==
  (2 * amount + totalExpenses) \div (2 * totalExpenses)

\* Math.round((amount / totalExpenses) * 100) for amounts that are not negative
MathRoundPercent(amount, totalExpenses) ==
  (200 * amount + totalExpenses) \div (2 * totalExpenses)

\* A plausible slip: a category that is not found keeps its id as name.
CategoryNameOrId(cats, categoryId) ==
  IF \E i \in DOMAIN cats : cats[i].id = categoryId
    THEN cats[CHOOSE i \in DOMAIN cats : cats[i].id = categoryId].name
    ELSE categoryId

\* category?.name || 'Unknown', category being categories.find(...)
CategoryName(cats, categoryId) ==
  IF \E i \in DOMAIN cats : cats[i].id = categoryId
    THEN LET found == CHOOSE i \in DOMAIN cats :
                        cats[i].id = categoryId /\ \A j \in 1..(i - 1) : cats[j].id # categoryId
         IN IF cats[found].name # "" THEN cats[found].name ELSE "Unknown"
    ELSE "Unknown"

\* category?.color || '#6B7280'
CategoryColor(cats, categoryId) ==
  IF \E i \in DOMAIN cats : cats[i].id = categoryId
    THEN LET found == CHOOSE i \in DOMAIN cats :
                        cats[i].id = categoryId /\ \A j \in 1..(i - 1) : cats[j].id # categoryId
         IN IF cats[found].color # "" THEN cats[found].color ELSE "#6B7280"
    ELSE "#6B7280"

\* A plausible slip: the breakdown is sorted by amount ascending.
RECURSIVE InsertByAmountAsc(_, _)
InsertByAmountAsc(sorted, x) ==
  IF sorted = <<>> THEN <<x>>
  ELSE IF Head(sorted).amount <= x.amount
    THEN <<Head(sorted)>> \o InsertByAmountAsc(Tail(sorted), x)
    ELSE <<x>> \o sorted

\* breakdown.sort((a, b) => b.amount - a.amount), a stable sort
RECURSIVE InsertByAmountDesc(_, _)
InsertByAmountDesc(sorted, x) ==
  IF sorted = <<>> THEN <<x>>
  ELSE IF Head(sorted).amount >= x.amount
    THEN <<Head(sorted)>> \o InsertByAmountDesc(Tail(sorted), x)
    ELSE <<x>> \o sorted

RECURSIVE SortByAmountDesc(_)
SortByAmountDesc(list) ==
  IF list = <<>> THEN <<>>
  ELSE InsertByAmountDesc(SortByAmountDesc(SubSeq(list, 1, Len(list) - 1)), list[Len(list)])

\* getCategoryBreakdown(transactions, categories, startDate, endDate), the two
\* arrays being JS values.
getCategoryBreakdown(list, cats, startDate, endDate, release) ==
  IF NothingToSum(list) THEN [threw |-> FALSE, value |-> <<>>]
  ELSE IF ~isArray(cats) THEN [threw |-> FALSE, value |-> <<>>]
  ELSE
    LET totalExpenses == calculateTotalExpenses(list, startDate, endDate, release)
        counted == SelectSeq(list.items,
                     LAMBDA t : t.type = "expense"
                                /\ InWindow(t, startDate, endDate, release))
        keys == CategoryKeys(counted)
        amountOf(k) == SumAmounts(SelectSeq(counted, LAMBDA t : t.categoryId = k))
        breakdown ==
          [i \in DOMAIN keys |->
             [categoryId |-> keys[i],
              categoryName |-> CategoryName(cats.items, keys[i]),
              categoryColor |-> CategoryColor(cats.items, keys[i]),
              amount |-> amountOf(keys[i]),
              percentage |-> IF totalExpenses.value > 0
                               THEN MathRoundPercent(amountOf(keys[i]), totalExpenses.value)
                               ELSE 0]]
    IN IF totalExpenses.threw THEN [threw |-> TRUE, value |-> <<>>]
       ELSE IF totalExpenses.value = 0 THEN [threw |-> FALSE, value |-> <<>>]
       ELSE [threw |-> FALSE, value |-> SortByAmountDesc(breakdown)]

\* new Date(year, month, day): midnight of that day in the local time zone.
NewDateLocal(day, tz) == 24 * day - tz

\* The current month in the model's calendar: its first and its last day
\* (day 0 is the last day of the month before, day 4 the first of the next).
CurrentMonth == [first |-> 1, last |-> 3]

\* Dashboard.js and ExpenseChart.js: new Date(y, m, 1) and new Date(y, m + 1, 0)
startOfMonth(tz) == DateAt(NewDateLocal(CurrentMonth.first, tz))
endOfMonth(tz) == DateAt(NewDateLocal(CurrentMonth.last, tz))


\* The transactions the store may hold: entered through the form on the last
\* day of the month before (0), on the first (1), a middle (2) and the last
\* (3) day of the current month, and on the first day of the next (4).
EnteredTransaction(id, categoryId, type, amount, day) ==
  [id |-> id, description |-> <<"a">>, categoryId |-> categoryId,
   type |-> type, amount |-> amount, date |-> DayToISOString(day)]

CalcPool ==
  { EnteredTransaction("e1", "cat-food", "expense", 40, 1),
    EnteredTransaction("e2", "cat-food", "expense", 60, 3),
    EnteredTransaction("i1", NULL, "income", 500, 2),
    EnteredTransaction("e3", "cat-gone", "expense", 40, 2),
    EnteredTransaction("e4", "cat-x", "expense", 40, 0),
    EnteredTransaction("i2", NULL, "income", 7, 4) }

CalcCategories == <<DEFAULT_CATEGORIES[1], StoredCategory>>

\* The date arguments of a call: null, or the UTC midnight of a day.  Every
\* caller passes the start and the end of one period, so a start is never
\* after the end.
StartDates == {NoDate, DateAt(24 * 1), DateAt(24 * 2)}
EndDates == {NoDate, DateAt(24 * 2), DateAt(24 * 3)}

InitCalc ==
  /\ \E l \in ListsOf(CalcPool, MaxTransactions) : StoreHolding(l, CalcCategories)
  /\ calc \in {[fn |-> "environment", env |-> e] : e \in Environments}

\* The values passed as the transactions argument: the store's array, or a
\* value that is no array.
ListArgs == {JSArray(transactions), JSObject}

CallTotals ==
  /\ calc.fn = "environment"
  /\ \E list \in ListArgs, startDate \in StartDates, endDate \in EndDates :
       calc' = [fn |-> "totals", env |-> calc.env, list |-> list,
                startDate |-> startDate, endDate |-> endDate,
                income |-> calculateTotalIncome(list, startDate, endDate, calc.env.dateFns),
                expenses |-> calculateTotalExpenses(list, startDate, endDate, calc.env.dateFns),
                balance |-> calculateBalance(list, startDate, endDate, calc.env.dateFns),
                spending |-> [c \in {"cat-food", "cat-gone", "cat-x"} |->
                                calculateCategorySpending(list, c, startDate, endDate,
                                                          calc.env.dateFns)]]
  /\ UNCHANGED storeVars

CallBreakdown ==
  /\ calc.fn = "environment"
  /\ \E list \in ListArgs, startDate \in StartDates, endDate \in EndDates :
       calc' = [fn |-> "getCategoryBreakdown", env |-> calc.env, list |-> list,
                startDate |-> startDate, endDate |-> endDate,
                expenses |-> calculateTotalExpenses(list, startDate, endDate, calc.env.dateFns),
                breakdown |-> getCategoryBreakdown(list, JSArray(categories), startDate,
                                                   endDate, calc.env.dateFns)]
  /\ UNCHANGED storeVars

\* Dashboard and ExpenseChart render over the store with the current month
\* as the window.
RenderDashboard ==
  /\ calc.fn = "environment"
  /\ LET list == JSArray(transactions)
         from == startOfMonth(calc.env.tz)
         to == endOfMonth(calc.env.tz)
     IN calc' = [fn |-> "Dashboard", env |-> calc.env,
                 totalIncome |-> calculateTotalIncome(list, from, to, calc.env.dateFns).value,
                 totalExpenses |-> calculateTotalExpenses(list, from, to, calc.env.dateFns).value,
                 balance |-> calculateBalance(list, from, to, calc.env.dateFns).value,
                 breakdown |-> getCategoryBreakdown(list, JSArray(categories), from, to,
                                                    calc.env.dateFns).value]
  /\ UNCHANGED storeVars

NextCalc == CallTotals \/ CallBreakdown \/ RenderDashboard

SpecCalc == InitCalc /\ [][NextCalc]_vars


\* The amounts of the records of list of the given type whose date lies in
\* [startDate, endDate] when both are given, summed.
SumOfType(list, type, startDate, endDate) ==
  SumAmounts(SelectSeq(list, LAMBDA t :
    /\ t.type = type
    /\ (startDate.given /\ endDate.given) =>
         (startDate.time <= t.date.iso /\ t.date.iso <= endDate.time)))

\* C16: calculateTotalIncome sums the incomes dated in [start, end] when both
\* bounds are given and all incomes when one is missing, and gives 0 for a
\* value that is no array; calculateTotalExpenses does so for the expenses
\* and calculateCategorySpending for the expenses of one category.
C16_Totals ==
  calc.fn = "totals" =>
    /\ ~calc.income.threw /\ ~calc.expenses.threw
    /\ IF calc.list.type # "array"
         THEN /\ calc.income.value = 0
              /\ calc.expenses.value = 0
              /\ \A c \in DOMAIN calc.spending : calc.spending[c].value = 0
         ELSE /\ calc.income.value =
                   SumOfType(calc.list.items, "income", calc.startDate, calc.endDate)
              /\ calc.expenses.value =
                   SumOfType(calc.list.items, "expense", calc.startDate, calc.endDate)
              /\ \A c \in DOMAIN calc.spending :
                   /\ ~calc.spending[c].threw
                   /\ calc.spending[c].value =
                        SumOfType(SelectSeq(calc.list.items, LAMBDA t : t.categoryId = c),
                                  "expense", calc.startDate, calc.endDate)

\* Both bounds given: the expense of day 1 is outside, that of day 3 inside.
C16_Witness ==
  /\ calc.fn = "totals"
  /\ calc.list.type = "array" /\ Len(calc.list.items) = 3
  /\ calc.startDate = [given |-> TRUE, time |-> 48]
  /\ calc.endDate = [given |-> TRUE, time |-> 72]
  /\ calc.income.value = 500
  /\ calc.expenses.value = 60
  /\ calc.spending["cat-food"].value = 60

\* C22: for every list and window, calculateBalance is calculateTotalIncome
\* minus calculateTotalExpenses over the same list and window.
C22_BalanceIsDifference ==
  calc.fn = "totals" =>
    /\ calc.balance.threw = (calc.income.threw \/ calc.expenses.threw)
    /\ ~calc.balance.threw =>
         calc.balance.value = calc.income.value - calc.expenses.value

\* A window that leaves out the expense of day 1 and keeps the income of
\* day 2 and the expense of day 3.
C22_Witness ==
  /\ calc.fn = "totals"
  /\ calc.list.type = "array"
  /\ \E i \in DOMAIN calc.list.items : calc.list.items[i].id = "e1"
  /\ calc.startDate.given /\ calc.endDate.given
  /\ calc.startDate.time = 48
  /\ calc.income.value = 500
  /\ calc.expenses.value = 60
  /\ calc.balance.value = 440

\* The records of list of the given type entered with a day of the current
\* month (days 1 to 3), their amounts summed.
SumOfMonth(list, type) ==
  SumAmounts(SelectSeq(list, LAMBDA t :
    t.type = type /\ t.date.iso \div 24 \in 1..3))

\* C17: every transaction dated on a day of the current month, the last day
\* included, counts in the Dashboard's monthly income, expenses and balance
\* and in the ExpenseChart breakdown (expenses 40 and 60 and an income of 500
\* give 500, 100 and 400).
C17_MonthTotals ==
  calc.fn = "Dashboard" =>
    /\ calc.totalIncome = SumOfMonth(transactions, "income")
    /\ calc.totalExpenses = SumOfMonth(transactions, "expense")
    /\ calc.balance = SumOfMonth(transactions, "income") - SumOfMonth(transactions, "expense")
    /\ SumAmounts(calc.breakdown) = SumOfMonth(transactions, "expense")


BrokenDown == calc.fn = "getCategoryBreakdown" /\ calc.list.type = "array"

\* The expenses of the call's window.
WindowExpenses ==
  SelectSeq(calc.list.items, LAMBDA t :
    /\ t.type = "expense"
    /\ (calc.startDate.given /\ calc.endDate.given) =>
         (calc.startDate.time <= t.date.iso /\ t.date.iso <= calc.endDate.time))

\* C18: getCategoryBreakdown gives one entry per categoryId that has expenses
\* in the window, its amount their sum (the amounts adding up to
\* calculateTotalExpenses), largest amount first; an id of no category is
\* named Unknown and coloured #6B7280; no expenses, no entries.
C18_Breakdown ==
  BrokenDown =>
    LET out == calc.breakdown.value IN
    /\ ~calc.breakdown.threw
    /\ {out[i].categoryId : i \in DOMAIN out} =
         {WindowExpenses[k].categoryId : k \in DOMAIN WindowExpenses}
    /\ \A i, j \in DOMAIN out : out[i].categoryId = out[j].categoryId => i = j
    /\ \A i \in DOMAIN out :
         /\ out[i].amount =
              SumAmounts(SelectSeq(WindowExpenses, LAMBDA t : t.categoryId = out[i].categoryId))
         /\ (\A c \in DOMAIN categories : categories[c].id # out[i].categoryId)
              => (out[i].categoryName = "Unknown" /\ out[i].categoryColor = "#6B7280")
         /\ \A c \in DOMAIN categories :
              categories[c].id = out[i].categoryId
                => /\ out[i].categoryName = categories[c].name
                   /\ out[i].categoryColor = categories[c].color
    /\ SumAmounts(out) = calc.expenses.value
    /\ \A i, j \in DOMAIN out : i < j => out[i].amount >= out[j].amount
    /\ calc.expenses.value = 0 => out = <<>>

\* Three expenses in the window: 100 for cat-food before 40 for the id of no
\* category.
C18_Witness ==
  /\ BrokenDown
  /\ Len(WindowExpenses) = 3
  /\ Len(calc.breakdown.value) = 2
  /\ calc.breakdown.value[1].categoryId = "cat-food"
  /\ calc.breakdown.value[1].amount = 100
  /\ calc.breakdown.value[2].categoryName = "Unknown"
  /\ calc.list.items[1].categoryId = "cat-gone"

RECURSIVE SumPercentages(_)
SumPercentages(list) ==
  IF list = <<>> THEN 0 ELSE Head(list).percentage + SumPercentages(Tail(list))

\* C19: with expenses above 0 each percentage is amount / total * 100
\* rounded to the nearest integer and the n percentages sum to within n of
\* 100; with expenses of 0 the breakdown is empty.
C19_Percentages ==
  BrokenDown =>
    LET out == calc.breakdown.value
        total == calc.expenses.value
    IN /\ total = 0 => out = <<>>
       /\ total > 0 =>
            /\ out # <<>>
            /\ \A i \in DOMAIN out :
                 /\ 2 * (100 * out[i].amount - out[i].percentage * total) <= total
                 /\ 2 * (out[i].percentage * total - 100 * out[i].amount) < total
            /\ SumPercentages(out) - 100 <= Len(out)
            /\ 100 - SumPercentages(out) <= Len(out)

\* Three categories with a third each: 33 + 33 + 33.
C19_Witness ==
  /\ BrokenDown
  /\ Len(calc.breakdown.value) = 3
  /\ SumPercentages(calc.breakdown.value) = 99

----------------------------------------------------------------------------
(* src/components/dashboard/RecentTransactions.js: SpendingChart.           *)
(* The calendar: day 0 is Monday, 1 January of year 0; no year is a leap    *)
(* year; daylight saving time is left out.  A Date is an instant (hours);   *)
(* date-fns works on its local fields, the instant shifted by the offset.   *)

MonthLengths == <<31, 28, 31, 30, 31, 30, 31, 31, 30, 31, 30, 31>>

RECURSIVE DaysBeforeMonth(_)
DaysBeforeMonth(m) ==          \* m in 0..11
  IF m = 0 THEN 0 ELSE DaysBeforeMonth(m - 1) + MonthLengths[m]

\* The month (counted from January of year 0) and the day of month of a day.
MonthIndexOfDay(day) ==
  LET doy == day % 365
      m == CHOOSE k \in 0..11 :
             DaysBeforeMonth(k) <= doy /\ doy < DaysBeforeMonth(k) + MonthLengths[k + 1]
  IN 12 * (day \div 365) + m

DayOfMonth(day) == (day % 365) - DaysBeforeMonth(MonthIndexOfDay(day) % 12) + 1

DayOfCalendar(monthIndex, dayOfMonth) ==
  365 * (monthIndex \div 12) + DaysBeforeMonth(monthIndex % 12) + dayOfMonth - 1

\* The local calendar day and hour of an instant.
LocalDay(time, tz) == (time + tz) \div 24
LocalHour(time, tz) == (time + tz) % 24

\* date-fns subDays, subWeeks, subMonths (the day of month is capped at the
\* length of the month arrived at).
subDays(time, amount) == time - 24 * amount
subWeeks(time, amount) == subDays(time, 7 * amount)
subMonths(time, amount, tz) ==
  LET day == LocalDay(time, tz)
      target == MonthIndexOfDay(day) - amount
      dayOfMonth == IF DayOfMonth(day) <= MonthLengths[(target % 12) + 1]
                      THEN DayOfMonth(day) ELSE MonthLengths[(target % 12) + 1]
  IN 24 * DayOfCalendar(target, dayOfMonth) + LocalHour(time, tz) - tz

\* format(date, 'yyyy-MM-dd'): the local day; format(startOfWeek(date,
\* { weekStartsOn: 1 }), 'yyyy-MM-dd'): the Monday of its week;
\* format(startOfMonth(date), 'yyyy-MM'): its month.
DayKey(time, tz) == LocalDay(time, tz)
WeekKey(time, tz) == LocalDay(time, tz) - (LocalDay(time, tz) % 7)
MonthKey(time, tz) == MonthIndexOfDay(LocalDay(time, tz))

DailyPeriods == 30
WeeklyPeriods == 12
MonthlyPeriods == 12

ViewTypes == {"daily", "weekly", "monthly"}

\* getDateRange()
getDateRange(viewType, now, tz) ==
  CASE viewType = "weekly" ->
         [startDate |-> subWeeks(now, 12), endDate |-> now, periods |-> WeeklyPeriods]
    [] viewType = "monthly" ->
         [startDate |-> subMonths(now, 12, tz), endDate |-> now, periods |-> MonthlyPeriods]
    [] OTHER ->
         [startDate |-> subDays(now, 30), endDate |-> now, periods |-> DailyPeriods]

\* The key of the period an instant belongs to.
PeriodKey(viewType, time, tz) ==
  CASE viewType = "weekly" -> WeekKey(time, tz)
    [] viewType = "monthly" -> MonthKey(time, tz)
    [] OTHER -> DayKey(time, tz)

\* The key of the i-th bucket (i from 0) of the chart.
BucketKey(viewType, i, range, tz) ==
  CASE viewType = "weekly" ->
         WeekKey(subWeeks(range.endDate, range.periods - 1 - i), tz)
    [] viewType = "monthly" ->
         MonthKey(subMonths(range.endDate, range.periods - 1 - i, tz), tz)
    [] OTHER -> DayKey(subDays(range.endDate, range.periods - 1 - i), tz)

\* chartData of SpendingChart for the store's transactions.
chartData(list, viewType, now, tz) ==
  LET range == getDateRange(viewType, now, tz)
      expenseTransactions ==
        SelectSeq(list, LAMBDA t :
          /\ t.type = "expense"
          /\ parseISO(t.date) >= range.startDate
          /\ parseISO(t.date) <= range.endDate)
      periodSpending(key) ==
        SumAmounts(SelectSeq(expenseTransactions,
                             LAMBDA t : PeriodKey(viewType, parseISO(t.date), tz) = key))
  IN [n \in 1..range.periods |->
        [period |-> BucketKey(viewType, n - 1, range, tz),
         amount |-> periodSpending(BucketKey(viewType, n - 1, range, tz))]]

\* The days on which the chart is looked at (31 March and 15 May of year 1)
\* and the local hours of the look.
Todays == {DayOfCalendar(14, 31), DayOfCalendar(16, 15)}
LookHours == {7, 13}

\* What the form has stored: expenses entered for today, yesterday, the
\* first day of the daily window, the day before it, tomorrow and a day
\* months ago, and an income entered for today.
TrendPool(today) ==
  { EnteredTransaction("d0", "cat-food", "expense", 1, today),
    EnteredTransaction("d1", "cat-food", "expense", 2, today - 1),
    EnteredTransaction("d29", "cat-food", "expense", 4, today - 29),
    EnteredTransaction("d30", "cat-food", "expense", 8, today - 30),
    EnteredTransaction("f1", "cat-food", "expense", 16, today + 1),
    EnteredTransaction("d200", "cat-food", "expense", 32, today - 200),
    EnteredTransaction("i0", NULL, "income", 64, today) }

InitTrend ==
  /\ \E today \in Todays :
       /\ \E l \in ListsOf(TrendPool(today), MaxTransactions) :
            StoreHolding(l, CalcCategories)
       /\ \E hour \in LookHours, tz \in TimeZones :
            calc = [fn |-> "clock", now |-> 24 * today + hour - tz, tz |-> tz]

\* SpendingChart renders with the chosen view.
RenderSpendingChart ==
  /\ calc.fn = "clock"
  /\ \E viewType \in ViewTypes :
       calc' = [fn |-> "chart", now |-> calc.now, tz |-> calc.tz,
                viewType |-> viewType,
                chartData |-> chartData(transactions, viewType, calc.now, calc.tz)]
  /\ UNCHANGED storeVars

NextTrend == RenderSpendingChart

SpecTrend == InitTrend /\ [][NextTrend]_vars

\* The day a stored transaction was entered for: the date of its ISO text.
EnteredDay(t) == t.date.iso \div 24

\* The period of the view a calendar day belongs to.
PeriodOfDay(viewType, day) ==
  CASE viewType = "weekly" -> day - (day % 7)
    [] viewType = "monthly" -> MonthIndexOfDay(day)
    [] OTHER -> day

\* The distance between the keys of two successive periods.
PeriodStep(viewType) == IF viewType = "weekly" THEN 7 ELSE 1

PeriodsOf(viewType) ==
  CASE viewType = "weekly" -> WeeklyPeriods
    [] viewType = "monthly" -> MonthlyPeriods
    [] OTHER -> DailyPeriods

Charted == calc.fn = "chart"

\* The buckets are one per period of the trailing window, successive, and
\* the last is the period of today.
DenseSeries ==
  LET data == calc.chartData
      today == LocalDay(calc.now, calc.tz)
  IN /\ Len(data) = PeriodsOf(calc.viewType)
     /\ \A i \in 1..(Len(data) - 1) :
          data[i + 1].period = data[i].period + PeriodStep(calc.viewType)
     /\ data[Len(data)].period = PeriodOfDay(calc.viewType, today)

\* Every bucket holds the sum of the expenses entered for a day of its
\* period (0 when there is none).
BucketSums ==
  \A i \in DOMAIN calc.chartData :
    calc.chartData[i].amount =
      SumAmounts(SelectSeq(transactions, LAMBDA t :
        /\ t.type = "expense"
        /\ PeriodOfDay(calc.viewType, EnteredDay(t)) = calc.chartData[i].period))

\* C20: the trend series has exactly one bucket per period of the trailing
\* window (30 days, 12 weeks or 12 months), in increasing order without gap
\* or duplicate, the last being the period that contains today; a bucket
\* with no expense has amount 0 and every other bucket holds the sum of the
\* expenses dated in its period.
C20_TrendSeries == Charted => DenseSeries /\ BucketSums

----------------------------------------------------------------------------
(* utils/calculations.js: calculateBudgetProgress, and its use by           *)
(* src/components/budgets/BudgetCard.js.  Amounts are whole numbers and the *)
(* division is exact.                                                       *)

MaxAmount == 8

\* A number argument: undefined, or a number.
NoNumber == [given |-> FALSE, value |-> 0]
NumberOf(n) == [given |-> TRUE, value |-> n]

\* A plausible slip: the percentage is capped at 100.
calculateBudgetProgressCapped(spent, budget) ==
  IF ~budget.given \/ budget.value = 0
    THEN 0
    ELSE IF MathRoundPercent(spent, budget.value) > 100
           THEN 100 ELSE MathRoundPercent(spent, budget.value)

calculateBudgetProgress(spent, budget) ==
  IF ~budget.given \/ budget.value = 0
    THEN 0
    ELSE MathRoundPercent(spent, budget.value)

\* Math.min(progress, 100), the width of the bar in per cent
ProgressBarWidth(progress) == IF progress < 100 THEN progress ELSE 100

SpentArgs == 0..(3 * MaxAmount)
BudgetArgs == {NoNumber} \cup {NumberOf(n) : n \in 0..MaxAmount}

InitProgress ==
  /\ StoreAtRest
  /\ calc \in [fn : {"card"}, spent : SpentArgs, budget : BudgetArgs]

\* BudgetCard renders for a budget and the amount spent.
RenderBudgetCard ==
  /\ calc.fn = "card"
  /\ calc' = [fn |-> "progress", spent |-> calc.spent, budget |-> calc.budget,
              progress |-> calculateBudgetProgress(calc.spent, calc.budget),
              width |-> ProgressBarWidth(calculateBudgetProgress(calc.spent, calc.budget))]
  /\ UNCHANGED storeVars

NextProgress == RenderBudgetCard

SpecProgress == InitProgress /\ [][NextProgress]_vars

\* p is x / y * 100 rounded to the nearest integer, a half going up.
IsRoundedPercent(p, x, y) ==
  /\ 2 * y * p - y <= 200 * x
  /\ 200 * x < 2 * y * p + y

\* C21: calculateBudgetProgress(spent, budget) is spent / budget * 100
\* rounded for every budget above 0, also when that is above 100, and 0
\* when budget is 0 or absent; only the width of the bar is capped at 100.
C21_BudgetProgress ==
  calc.fn = "progress" =>
    /\ (calc.budget.given /\ calc.budget.value > 0) =>
         IsRoundedPercent(calc.progress, calc.spent, calc.budget.value)
    /\ (~calc.budget.given \/ calc.budget.value = 0) => calc.progress = 0
    /\ calc.width = (IF calc.progress > 100 THEN 100 ELSE calc.progress)

C21_Witness ==
  /\ calc.fn = "progress"
  /\ calc.budget.given /\ calc.budget.value > 0
  /\ calc.spent > calc.budget.value
  /\ calc.progress > 100
  /\ calc.width = 100

----------------------------------------------------------------------------
(* The store functions as any consumer of the context may call them: the    *)
(* updates of updateTransaction and updateCategory are objects of the       *)
(* caller's choice, so they may carry an id field.                          *)

ApiTransactionUpdates == { [id |-> "trans_9", amount |-> 60] }
ApiCategoryUpdates == { [id |-> "cat-9", name |-> "Groceries"] }

NextApi ==
  \/ Next
  \/ phase = "idle" /\ \E id \in TransactionIdArgs, u \in ApiTransactionUpdates :
       updateTransaction(id, u)
  \/ phase = "idle" /\ \E id \in CategoryIdArgs, u \in ApiCategoryUpdates :
       updateCategory(id, u)

SpecApi == Init /\ [][NextApi]_vars

\* The step is a call of a store function.
StoreCall == events' = events + 1 /\ step' = "call" /\ result'.op # "import"

\* The ids a call may add to a collection: the id it returns when it is a
\* call that creates a record of that collection.
CreatedBy(r, op) == IF r.op = op THEN {r.ret} ELSE {}

\* The records of a collection keep their ids, position by position.
KeepsIds(before, after) ==
  /\ Len(after) = Len(before)
  /\ \A i \in DOMAIN before : after[i].id = before[i].id

C23_Step ==
  StoreCall =>
    /\ result'.op = "updateTransaction" => KeepsIds(pendTransactions, pendTransactions')
    /\ result'.op = "updateCategory" => KeepsIds(pendCategories, pendCategories')
    /\ IdsOf(pendTransactions') \subseteq
         IdsOf(pendTransactions) \cup CreatedBy(result', "addTransaction")
    /\ IdsOf(pendCategories') \subseteq
         IdsOf(pendCategories) \cup CreatedBy(result', "addCategory")
    /\ IdsOf(pendBudgets') \subseteq
         IdsOf(pendBudgets) \cup CreatedBy(result', "setBudget")

\* C23: ids are immutable: after updateTransaction(id, updates), whatever
\* fields updates has, the record that matched id still has that id, and no
\* store function changes the id of a transaction, category or budget.
C23_IdImmutable == [][C23_Step]_vars

\* The collection a store function looks its id argument up in.
TargetOf(op) ==
  CASE op \in {"updateTransaction", "deleteTransaction"} -> pendTransactions
    [] op = "updateCategory" -> pendCategories
    [] op = "deleteBudget" -> pendBudgets

\* The step is a call of one of the four functions with an id no record has.
UnmatchedCall ==
  /\ events' = events + 1 /\ step' = "call"
  /\ result'.op \in {"updateTransaction", "deleteTransaction", "updateCategory",
                     "deleteBudget"}
  /\ result'.args.id \notin IdsOf(TargetOf(result'.op))

C24_Step ==
  UnmatchedCall =>
    /\ pendTransactions' = pendTransactions
    /\ pendCategories' = pendCategories
    /\ pendBudgets' = pendBudgets
    /\ UNCHANGED <<transactions, categories, budgets>>
    /\ ~result'.threw

\* C24: updateTransaction, deleteTransaction, updateCategory and deleteBudget
\* called with an id that matches no record leave the contents of the three
\* collections as they were and raise no error.
C24_UnmatchedIdNoOp == [][C24_Step]_vars

\* deleteTransaction was called with an id no transaction has, on a store
\* that holds a transaction.
C24_Witness ==
  /\ step = "call"
  /\ result.op = "deleteTransaction"
  /\ result.args.id = "trans_missing"
  /\ ~result.threw
  /\ Len(pendTransactions) > 0

\* The same for deleteBudget and a store that holds a budget.
C24_WitnessBudget ==
  /\ step = "call"
  /\ result.op = "deleteBudget"
  /\ result.args.id = "budget_missing"
  /\ Len(pendBudgets) > 0

\* The list the hydrate effect makes of what a record held when the
\* provider mounted.
ReadAs(key) ==
  LET saved == getFromStorage(initial, key).ret
  IN IF isArray(saved) THEN saved.items ELSE <<>>

\* C25: during initialization (the hydrate effect and the persist effects of
\* the first render, in their order) the persisted Transactions and Budgets
\* records are never overwritten with a value other than the one read from
\* them; a persisted list that is not empty is never replaced by an empty
\* list, not even for a time.
C25_InitKeepsRecords ==
  result.op = "mount" =>
    \A key \in {TRANSACTIONS, BUDGETS} :
      \/ storage[key] = initial[key]
      \/ storage[key] = JSONstringify(JSArray(ReadAs(key)))

----------------------------------------------------------------------------
(* An event handler that calls two store functions before it returns: the   *)
(* second call runs before React has rendered, so it uses the functions of  *)
(* the last render (useCallback's closures over transactions and budgets)   *)
(* while the state updaters queue on the pending state.                     *)

\* The handler has called a store function and has not returned yet.
InHandler == phase = "render" /\ step = "call"

NextBatch ==
  \/ Next
  \/ InHandler /\ \E b \in BudgetInputs : setBudget(b)
  \/ InHandler /\ \E id \in CategoryIdArgs : deleteCategory(id)

SpecBatch == Init /\ [][NextBatch]_vars

C26_Step ==
  ( /\ InHandler /\ result.op = "setBudget"
    /\ step' = "call" /\ events' = events + 1 /\ result'.op = "setBudget"
    /\ PairOf(result'.args.budget) = PairOf(result.args.budget) )
  => /\ result'.ret = result.ret
     /\ Cardinality(ForPair(pendBudgets', PairOf(result.args.budget))) = 1

\* C26: when setBudget is called twice for one (categoryId, period) from one
\* event handler, before the store has rendered again, the second call sees
\* the budget the first created: both return the same id and one budget for
\* the pair exists afterwards.
C26_SecondCallSeesFirst == [][C26_Step]_vars

\* C27: deleteCategory(c) never removes c once a transaction that references
\* c has been added, also when the addTransaction was made earlier in the
\* same event handler: after a deleteCategory that did not throw, no
\* transaction added before it references the removed category.
C27_NoOrphanAfterDelete ==
  (JustCalled("deleteCategory") /\ ~result.threw) =>
    ~References(pendTransactions, result.args.id)

----------------------------------------------------------------------------
(* src/components/budgets/BudgetForm.js and BudgetManager.js: saving the    *)
(* edit of a budget.                                                        *)

\* BudgetForm.handleSubmit in edit mode: the category select is disabled, the
\* amount and the period are the user's.
budgetData(editingBudget, amount, period) ==
  [categoryId |-> editingBudget.categoryId, amount |-> amount, period |-> period]

\* BudgetManager.handleSave with a budget being edited.
handleSave(editingBudget, data) ==
  setBudget(Spread(data, [id |-> editingBudget.id]))

NextEdit ==
  \/ Next
  \/ /\ phase = "idle"
     /\ \E i \in DOMAIN budgets, amount \in {200, 250}, period \in {"monthly", "weekly"} :
          /\ <<budgets[i].categoryId, period>> \in BudgetPairs
          /\ handleSave(budgets[i], budgetData(budgets[i], amount, period))

SpecEdit == Init /\ [][NextEdit]_vars

\* The step saves the edit of a budget: setBudget is given the budget's id.
SavesEdit ==
  /\ step' = "call" /\ events' = events + 1
  /\ result'.op = "setBudget"
  /\ "id" \in DOMAIN result'.args.budget

C28_Step ==
  SavesEdit =>
    LET edited == result'.args.budget
    IN /\ Len(pendBudgets') = Len(pendBudgets)
       /\ \A j \in DOMAIN pendBudgets :
            pendBudgets'[j] = IF pendBudgets[j].id = edited.id
                                THEN edited ELSE pendBudgets[j]

\* C28: saving the edit of a budget in the budget manager, with its amount
\* or its period changed, changes that budget in place: the number of budgets
\* does not grow, the budget keeps its id and no other budget is changed.
C28_EditInPlace == [][C28_Step]_vars

\* The same for an edit that keeps the period.
C28_StepSamePeriod ==
  (SavesEdit /\ \E j \in DOMAIN pendBudgets :
                  /\ pendBudgets[j].id = result'.args.budget.id
                  /\ pendBudgets[j].period = result'.args.budget.period)
    => C28_Step

C28_EditInPlaceSamePeriod == [][C28_StepSamePeriod]_vars

----------------------------------------------------------------------------
(* src/components/ui/ConfirmDialog.js.  A promise is "pending" or settled   *)
(* with "true" or "false"; calling the resolve function of a settled        *)
(* promise changes nothing.  The component's state is the state of its last *)
(* render (isOpen, resolve) and the state queued by the setters (pendOpen,  *)
(* pendResolve); resolve is the index of the promise whose resolve function *)
(* it holds, 0 for null.                                                    *)

MaxCalls == 3

\* res(value) of the promise at index p
ResolvePromise(promises, p, value) ==
  IF promises[p] = "pending" THEN [promises EXCEPT ![p] = value] ELSE promises

InitDialog ==
  /\ StoreAtRest
  /\ calc = [fn |-> "dialog", instance |-> FALSE, isOpen |-> FALSE, resolve |-> 0,
             pendOpen |-> FALSE, pendResolve |-> 0, promises |-> <<>>, last |-> "none"]

\* The effect of ConfirmDialog's mount: setConfirmDialogInstance({ show }).
MountConfirmDialog ==
  /\ calc.fn = "dialog" /\ ~calc.instance
  /\ calc' = [calc EXCEPT !.instance = TRUE, !.last = "mount"]
  /\ UNCHANGED storeVars

\* confirmDialog(title, message, options) with no instance: window.confirm.
confirmDialogNative ==
  /\ calc.fn = "dialog" /\ ~calc.instance
  /\ Len(calc.promises) < MaxCalls
  /\ \E answer \in {"true", "false"} :
       calc' = [calc EXCEPT !.promises = Append(@, answer), !.last = "native"]
  /\ UNCHANGED storeVars

\* confirmDialog(title, message, options) with the instance: show().
confirmDialogShow ==
  /\ calc.fn = "dialog" /\ calc.instance
  /\ Len(calc.promises) < MaxCalls
  /\ calc' = [calc EXCEPT !.promises = Append(@, "pending"),
                          !.pendResolve = Len(calc.promises) + 1,
                          !.pendOpen = TRUE,
                          !.last = "show"]
  /\ UNCHANGED storeVars

\* React renders ConfirmDialog with the queued state.
RenderConfirmDialog ==
  /\ calc.fn = "dialog"
  /\ calc.isOpen # calc.pendOpen \/ calc.resolve # calc.pendResolve
  /\ calc' = [calc EXCEPT !.isOpen = calc.pendOpen, !.resolve = calc.pendResolve,
                          !.last = "render"]
  /\ UNCHANGED storeVars

\* handleConfirm (value "true") and handleCancel (value "false", also the
\* modal's onClose) of the dialog on the screen.
HandleAnswer(value) ==
  /\ calc.fn = "dialog" /\ calc.isOpen
  /\ calc' = [calc EXCEPT
                !.pendOpen = FALSE,
                !.promises = IF calc.resolve # 0
                               THEN ResolvePromise(@, calc.resolve, value) ELSE @,
                !.pendResolve = IF calc.resolve # 0 THEN 0 ELSE @,
                !.last = value]
  /\ UNCHANGED storeVars

handleConfirm == HandleAnswer("true")
handleCancel == HandleAnswer("false")

NextDialog ==
  \/ MountConfirmDialog
  \/ confirmDialogNative
  \/ confirmDialogShow
  \/ RenderConfirmDialog
  \/ handleConfirm
  \/ handleCancel

SpecDialog == InitDialog /\ [][NextDialog]_vars

\* The dialog is closed and nothing is queued.
DialogClosed == ~calc.isOpen /\ ~calc.pendOpen /\ calc.resolve = calc.pendResolve

\* C29: every call of confirmDialog returns a promise that resolves once,
\* with true when the user confirms and false when the user cancels or
\* closes the dialog, also a call made while the dialog of an earlier call
\* is open: once the dialog is closed no promise is left pending, and an
\* answer resolves the promise on the screen with the answer's value.
C29_EveryPromiseResolves ==
  calc.fn = "dialog" =>
    /\ DialogClosed => \A p \in DOMAIN calc.promises : calc.promises[p] # "pending"
    /\ (calc.last \in {"true", "false"} /\ calc.resolve # 0) =>
         calc.promises[calc.resolve] \in {"true", "false"}

----------------------------------------------------------------------------
(* The categories of the store and their persisted record. *)

\* The text is a JSON list that is not empty.
NonEmptyList(text) ==
  text.kind = "json" /\ text.value.type = "array" /\ text.value.items # <<>>

\* The writes to the categories record made by the step that led here.
CategoryWrites ==
  {i \in DOMAIN io : io[i].fn = "saveToStorage" /\ io[i].key = CATEGORIES}

====
